---------------------------- MODULE Spec2Model ----------------------------
(***************************************************************************)
(* A model of the MaxLinear MXL371x MoCA PHY driver (mxl371x.c).           *)
(*                                                                         *)
(* Eight specifications share the module:                                  *)
(*   SpecTransport  one caller drives read_mem32 / write_mem32 /           *)
(*                  read_mem64, one 16-bit MDIO transfer per step, on a    *)
(*                  fake bus that keeps a register file and a memory;      *)
(*   SpecBus        the same steps taken by two contexts (the poll work    *)
(*                  and a sysfs/hwmon caller) with nothing but the         *)
(*                  per-transfer MDIO lock between them;                   *)
(*   SpecLoader     mxl371x_load_firmware, one 32-bit access per step;     *)
(*   SpecLoaderFair SpecLoader in which a loader that has been called      *)
(*                  keeps taking steps;                                    *)
(*   Spec           the phylib callbacks (probe, config_init, read_status, *)
(*                  suspend, resume, remove) and the delayed work          *)
(*                  stats_poll, whose tick goes statement by statement;    *)
(*   SpecTemp       mxl371x_hwmon_read with the sampling sequence and the  *)
(*                  temperature calculation, one 32-bit access per step;   *)
(*   SpecReaders    mxl371x_update_stats and mxl371x_read_moca_status,     *)
(*                  one of their nine reads per step;                      *)
(*   SpecGuid       mxl371x_set_default_guid, moca_guid_show and           *)
(*                  moca_guid_store on the two GUID registers.             *)
(*                                                                         *)
(* TLC's integers are 32-bit signed, so a u32 is kept as its two 16-bit    *)
(* halves [hi, lo] and a u64 as its two u32 words [hi, lo].                *)
(***************************************************************************)
EXTENDS Integers, Sequences, FiniteSets, TLC

(***************************************************************************)
(* Bounds of the model (not program constants).                            *)
(***************************************************************************)
\* logical bus operations started in one behaviour of SpecTransport/SpecBus
MaxOps == 2
\* longest firmware image whose bytes are enumerated
MaxFwLen == 6
\* calls of mxl371x_load_firmware in one behaviour of SpecLoader
MaxCalls == 2
\* calls of mxl371x_config_init in one behaviour of Spec
MaxInit == 3
\* calls of mxl371x_hwmon_read in one behaviour of SpecTemp
MaxTempReads == 2
\* runs of the two readers in one behaviour of SpecReaders
MaxRuns == 2
\* calls of moca_guid_store in one behaviour of SpecGuid
MaxStores == 1
\* calls of mxl371x_set_default_guid in one behaviour of SpecGuid
MaxResolve == 1

(***************************************************************************)
(* Program constants.                                                      *)
(***************************************************************************)
MXL371X_MAX_FW_SIZE == 4 * 1024 * 1024
SRE_CPU_SRC_SEL_CSR == \H08200010
MXL371X_FW_BASE_ADDR == \H00000000
MXL371X_FW_STATUS_REG == \H08200100
MXL371X_FW_LOADED == 1
MXL371X_FW_RUNNING == 2
MXL371X_FW_ERROR == 4
MXL371X_MDIO_ADDR_REG == \H0e
MXL371X_MDIO_DATA_REG == \H0f
MOCA_STATS_BASE == \H0c000000
MOCA_LINK_STATUS_REG == \H0c100000
MOCA_LINK_STATUS_MASK == \H07
MOCA_LINK_PHY_RATE_REG == \H0c100004
MOCA_LINK_MOCA_VER_REG == \H0c100008
MOCA_LINK_NODE_ID_REG == \H0c10000c
MOCA_LINK_NC_NODE_ID_REG == \H0c100010
MOCA_LINK_LOF_REG == \H0c100014
MOCA_LINK_NETWORK_STATE_REG == \H0c100018
MOCA_LINK_ACTIVE_NODES_REG == \H0c10001c
MOCA_SECURITY_STATUS_REG == \H0c100200
MOCA_SECURITY_ENABLED == 1
MOCA_MAC_ADDR_HI == \H0c100020
MOCA_MAC_ADDR_LO == \H0c100024
EINVAL == 22
EADDRNOTAVAIL == 99
EIO == 5
ETIMEDOUT == 110
ENOENT == 2
EEXIST == 17
ENOMEM == 12

(***************************************************************************)
(* Fixed-width integers.                                                   *)
(***************************************************************************)
TwoTo16 == 65536
U16 == 0 .. (TwoTo16 - 1)

\* a u32 given by a number below 2^31
U32Of(n) == [hi |-> (n \div TwoTo16) % TwoTo16, lo |-> n % TwoTo16]

Zero32 == U32Of(0)

\* u32 addition of a small constant, wrapping at 2^32 (addr + 4)
Add32(w, k) ==
    LET lo == w.lo + k
    IN  [hi |-> (w.hi + (lo \div TwoTo16)) % TwoTo16, lo |-> lo % TwoTo16]

\* ((u64)val_hi << 32) | val_lo
Compose64(val_hi, val_lo) == [hi |-> val_hi, lo |-> val_lo]

\* ((u32)data_hi << 16) | data_lo
Compose32(data_hi, data_lo) == [hi |-> data_hi, lo |-> data_lo]

Zero64 == Compose64(Zero32, Zero32)

\* errors a 16-bit MDIO transfer can return (ret < 0)
BusErrnos == {-EIO, -ETIMEDOUT}

(***************************************************************************)
(* The fake bus of the transport tests: a register file indexed by the     *)
(* MDIO register number and a sparse memory of 32-bit words.  The address  *)
(* of an access is what the address-register pair holds; the data-register *)
(* pair is a window on the word at that address, committed by the write of *)
(* its low half.                                                           *)
(***************************************************************************)
BusRegs == {MXL371X_MDIO_ADDR_REG, MXL371X_MDIO_ADDR_REG + 1,
            MXL371X_MDIO_DATA_REG, MXL371X_MDIO_DATA_REG + 1}

MemRead(m, a) == IF a \in DOMAIN m THEN m[a] ELSE Zero32

MemWrite(m, a, v) ==
    [x \in (DOMAIN m) \cup {a} |-> IF x = a THEN v ELSE m[x]]

BusAddr(r) ==
    [hi |-> r[MXL371X_MDIO_ADDR_REG], lo |-> r[MXL371X_MDIO_ADDR_REG + 1]]

FakeBusWrite16(b, reg, v) ==
    LET r2 == [b.regs EXCEPT ![reg] = v]
    IN  [regs |-> r2,
         mem  |-> IF reg = MXL371X_MDIO_DATA_REG + 1
                  THEN MemWrite(b.mem, BusAddr(r2),
                                Compose32(r2[MXL371X_MDIO_DATA_REG], v))
                  ELSE b.mem]

FakeBusRead16(b, reg) ==
    IF reg = MXL371X_MDIO_DATA_REG
    THEN MemRead(b.mem, BusAddr(b.regs)).hi
    ELSE IF reg = MXL371X_MDIO_DATA_REG + 1
         THEN MemRead(b.mem, BusAddr(b.regs)).lo
         ELSE b.regs[reg]

(***************************************************************************)
(* The 16-bit transfers of the 32-bit accessors, in program order.         *)
(***************************************************************************)
mxl371x_read_mem32_xfers(addr) ==
    << [dir |-> "write", reg |-> MXL371X_MDIO_ADDR_REG,     val |-> addr.hi],
       [dir |-> "write", reg |-> MXL371X_MDIO_ADDR_REG + 1, val |-> addr.lo],
       [dir |-> "read",  reg |-> MXL371X_MDIO_DATA_REG,     val |-> 0],
       [dir |-> "read",  reg |-> MXL371X_MDIO_DATA_REG + 1, val |-> 0] >>

mxl371x_write_mem32_xfers(addr, val) ==
    << [dir |-> "write", reg |-> MXL371X_MDIO_ADDR_REG,     val |-> addr.hi],
       [dir |-> "write", reg |-> MXL371X_MDIO_ADDR_REG + 1, val |-> addr.lo],
       [dir |-> "write", reg |-> MXL371X_MDIO_DATA_REG,     val |-> val.hi],
       [dir |-> "write", reg |-> MXL371X_MDIO_DATA_REG + 1, val |-> val.lo] >>

\* 16-bit writes among the first n transfers of a transfer list
WritesIn(xfers, n) == Cardinality({k \in 1 .. n : xfers[k].dir = "write"})


(***************************************************************************)
(* State.                                                                  *)
(***************************************************************************)
VARIABLES
    \* ---- the bus and the contexts that use it (SpecTransport, SpecBus)
    bus,        \* the fake bus: [regs, mem]
    cop,        \* per context: the logical operation in progress
    cpc,        \* per context: transfers done in the current 32-bit access
    cword,      \* per context: read_mem64 is at its low (0) or high (1) word
    cacc,       \* per context: the locals data_hi and val_lo
    dst32,      \* per context: the caller's u32 destination (*val)
    dst64,      \* per context: the caller's u64 destination (*val)
    clog,       \* per context: the transfers issued by the current operation
                \* as [dir, reg, val, ok], val the value written or read
    clast,      \* per context: the operation that returned last
    cprev,      \* per context: the operation that returned before clast
    nops        \* logical operations started so far

busVars == <<bus, cop, cpc, cword, cacc, dst32, dst64, clog, clast, cprev, nops>>

VARIABLES
    \* ---- mxl371x_load_firmware (SpecLoader)
    fw_loaded,    \* priv->fw_loaded
    lpc,          \* where the loader is
    li,           \* the loop variable i
    fw,           \* the image request_firmware gave (fw->size, fw->data)
    ret,          \* the value the loader returned
    msg,          \* the dev_info/dev_err line the loader ended with
    wlog,         \* the write_mem32 calls of this call: [step, addr, val, ret]
    busWrites,    \* 16-bit bus writes issued in this call
    polls,        \* status reads issued by the ready loop in this call
    firstRun,     \* first ready poll that read the running bit (0: none)
    firstErr,     \* first ready poll that read the error bit (0: none)
    clock,        \* milliseconds slept in this call
    ncalls,       \* calls of the loader so far
    entry_loaded, \* fw_loaded when this call started
    chk         \* what the warm-boot check of this call read

loaderVars == <<lpc, li, fw, ret, msg, wlog, busWrites, polls, firstRun,
                firstErr, clock, ncalls, entry_loaded, chk>>

VARIABLES
    \* ---- the phylib callbacks and the delayed work (Spec)
    phase,        \* "unbound", "bound", "removed" or "oops"
    attached_dev, \* phydev->attached_dev is set
    sysfs_group,  \* the attribute files of mxl371x_attr_group exist
    stats_poll,   \* priv->stats_poll
    tick_pc,      \* the work function: "idle", at its "gate", before
                  \* update_stats ("stats"), before read_moca_status
                  \* ("status"), or before its last line ("resched")
    tick_reads,   \* the tick in progress ran the two readers
    tick_gate,    \* fw_loaded and attached_dev as the tick tested them
    tick_ops,     \* the readers the tick in progress has called
    reader_start, \* the last call of a reader: by whom, which, and
                  \* fw_loaded at that moment
    fw_writer,    \* the function that changed fw_loaded last
    init_log,     \* the steps the last mxl371x_config_init went through
    init_ret,     \* the value the last mxl371x_config_init returned
    init_failed,  \* the steps of it that failed
    cb,           \* the callback waiting in cancel_delayed_work_sync
    cancelled,    \* suspend/remove returned and nothing has scheduled since
    ninit         \* calls of mxl371x_config_init so far

\* what the callbacks and the tick record as they go
obsVars == <<tick_gate, tick_ops, reader_start, fw_writer, init_log, init_ret,
             init_failed>>

lifeVars == <<phase, attached_dev, sysfs_group, stats_poll, tick_pc,
              tick_reads, cb, cancelled, ninit, obsVars>>

VARIABLES
    \* ---- mxl371x_hwmon_read (SpecTemp)
    tpc,          \* hwmon_read is "idle", in read_temp_raw ("raw"), at
                  \* "calc" or "returned"
    ti,           \* the next access of read_temp_raw (1 .. 10)
    t0,           \* the local u32 t0
    t1,           \* the local u32 t1
    hret,         \* the value hwmon_read returned
    hval,         \* the caller's long *val
    hstored,      \* this call of hwmon_read stored through val
    tlog,         \* the accesses this call issued: [op, addr, val, ret]
    nreads        \* calls of hwmon_read so far

tempVars == <<tpc, ti, t0, t1, hret, hval, hstored, tlog, nreads>>

VARIABLES
    \* ---- mxl371x_update_stats and mxl371x_read_moca_status (SpecReaders)
    rpc,          \* "idle", or the reader that runs: "stats" or "status"
    ri,           \* the next of its nine reads (1 .. 9)
    rfail,        \* what the bus does to each read of this run
    rdata,        \* which values the device delivers in this run
    stats,        \* priv->stats, the nine counters
    status,       \* priv->link_status .. priv->security_enabled
    rret,         \* the local ret of the reader
    rwarned,      \* the last run ended with dev_warn_ratelimited
    rprev,        \* the fields of the reader when this run started
    rlog,         \* the reads this run attempted: [addr, ok]
    nruns         \* runs of the readers so far

readVars == <<rpc, ri, rfail, rdata, stats, status, rret, rwarned, rprev,
              rlog, nruns>>

VARIABLES
    \* ---- mxl371x_set_default_guid, moca_guid_show, moca_guid_store (SpecGuid)
    reg_hi,       \* the device register at MOCA_MAC_ADDR_HI
    reg_lo,       \* the device register at MOCA_MAC_ADDR_LO
    gpc,          \* "boot", "idle" or the step of the running function
    mac,          \* the local u8 mac[ETH_ALEN]
    mac_hi,       \* the local u32 mac_hi
    mac_lo,       \* the local u32 mac_lo
    gret,         \* the value the last function returned
    gsrc,         \* what the resolver settled on in its last run
    resolved,     \* mxl371x_set_default_guid has returned 0
    asked,        \* the sources the running resolver has consulted
    rng_calls,    \* calls of get_random_bytes in this run of the resolver
    glog,         \* the accesses of this run: [op, addr, val, ok]
    entry_hi,     \* reg_hi when the resolver was entered
    entry_lo,     \* reg_lo when the resolver was entered
    shown,        \* the address moca_guid_show printed last
    nstores,      \* calls of moca_guid_store so far
    nresolve,     \* calls of mxl371x_set_default_guid so far
    offer         \* what the sources offered when the resolver chose

guidVars == <<reg_hi, reg_lo, gpc, mac, mac_hi, mac_lo, gret, gsrc, resolved,
              asked, rng_calls, glog, entry_hi, entry_lo, shown, nstores,
              nresolve, offer>>

featVars == <<tempVars, readVars, guidVars>>

\* what the steps of one feature leave alone
otherThanTemp == <<busVars, fw_loaded, loaderVars, lifeVars, readVars, guidVars>>

otherThanRead == <<busVars, fw_loaded, loaderVars, lifeVars, tempVars, guidVars>>

otherThanGuid == <<busVars, fw_loaded, loaderVars, lifeVars, tempVars, readVars>>

vars == <<busVars, fw_loaded, loaderVars, lifeVars, featVars>>

\* the poll work (mxl371x_stats_poll_work) and one sysfs/hwmon/phylib caller
Ctx == {"poller", "caller"}

\* addresses and values the contexts use
TAddrs == {U32Of(MOCA_MAC_ADDR_HI), [hi |-> TwoTo16 - 1, lo |-> TwoTo16 - 4]}

TVals == {[hi |-> \H0224, lo |-> \H3e01], [hi |-> \H0020, lo |-> \Hbeef]}

NoOp == [kind |-> "none", addr |-> Zero32, val |-> Zero32, mem0 |-> <<>>]

NoResult == [kind |-> "none", addr |-> Zero32, val |-> Zero32, ret |-> 0,
             out32 |-> Zero32, out64 |-> Zero64, old32 |-> Zero32,
             old64 |-> Zero64, log |-> <<>>, mem0 |-> <<>>, mem1 |-> <<>>]

\* what the device memory holds before the driver touches it
InitMem ==
    [a \in {U32Of(MOCA_MAC_ADDR_HI), U32Of(MOCA_MAC_ADDR_LO),
            [hi |-> TwoTo16 - 1, lo |-> TwoTo16 - 4], Zero32} |->
        [hi |-> (a.lo + 7) % TwoTo16, lo |-> (a.hi + 3) % TwoTo16]]

BusInit ==
    /\ bus = [regs |-> [r \in BusRegs |-> 0], mem |-> InitMem]
    /\ cop = [c \in Ctx |-> NoOp]
    /\ cpc = [c \in Ctx |-> 0]
    /\ cword = [c \in Ctx |-> 0]
    /\ cacc = [c \in Ctx |-> [data_hi |-> 0, val_lo |-> Zero32]]
    /\ dst32 = [c \in Ctx |-> Zero32]
    /\ dst64 = [c \in Ctx |-> Zero64]
    /\ clog = [c \in Ctx |-> <<>>]
    /\ clast = [c \in Ctx |-> NoResult]
    /\ cprev = [c \in Ctx |-> NoResult]
    /\ nops = 0

(***************************************************************************)
(* mxl371x_read_mem32 / mxl371x_write_mem32 / mxl371x_read_mem64, one      *)
(* phy_read or phy_write per step.  Each phy_read/phy_write takes and      *)
(* drops the MDIO bus lock by itself; the driver holds no lock of its own  *)
(* from one transfer to the next.                                          *)
(***************************************************************************)
Begin(c, kind, addr, val) ==
    /\ cop[c].kind = "none"
    /\ nops < MaxOps
    /\ nops' = nops + 1
    /\ cop' = [cop EXCEPT ![c] = [kind |-> kind, addr |-> addr, val |-> val,
                                  mem0 |-> bus.mem]]
    /\ cpc' = [cpc EXCEPT ![c] = 0]
    /\ cword' = [cword EXCEPT ![c] = 0]
    /\ clog' = [clog EXCEPT ![c] = <<>>]
    /\ UNCHANGED <<bus, cacc, dst32, dst64, clast, cprev>>
    /\ UNCHANGED <<fw_loaded, loaderVars, lifeVars, featVars>>

mxl371x_read_mem32(c) == \E addr \in TAddrs : Begin(c, "read32", addr, Zero32)

mxl371x_write_mem32(c) ==
    \E addr \in TAddrs, val \in TVals : Begin(c, "write32", addr, val)

mxl371x_read_mem64(c) == \E addr \in TAddrs : Begin(c, "read64", addr, Zero32)

\* the address of the 32-bit access in progress: addr, or addr + 4 for the
\* second read of read_mem64
Read64HighAddr(addr) == Add32(addr, 4)

CurAddr(c) ==
    IF cop[c].kind = "read64" /\ cword[c] = 1
    THEN Read64HighAddr(cop[c].addr)
    ELSE cop[c].addr

CurXfers(c) ==
    IF cop[c].kind = "write32"
    THEN mxl371x_write_mem32_xfers(cop[c].addr, cop[c].val)
    ELSE mxl371x_read_mem32_xfers(CurAddr(c))

\* the operation of context c returns r; o32/o64 are its destinations
Return(c, r, o32, o64, log) ==
    /\ clast' = [clast EXCEPT ![c] =
                    [kind |-> cop[c].kind, addr |-> cop[c].addr,
                     val |-> cop[c].val, ret |-> r,
                     out32 |-> o32, out64 |-> o64,
                     old32 |-> dst32[c], old64 |-> dst64[c],
                     log |-> log, mem0 |-> cop[c].mem0, mem1 |-> bus'.mem]]
    /\ cprev' = [cprev EXCEPT ![c] = clast[c]]
    /\ cop' = [cop EXCEPT ![c] = NoOp]
    /\ cpc' = [cpc EXCEPT ![c] = 0]
    /\ cword' = [cword EXCEPT ![c] = 0]
    /\ dst32' = [dst32 EXCEPT ![c] = o32]
    /\ dst64' = [dst64 EXCEPT ![c] = o64]

\* read_mem32 that stores what it has composed so far when a transfer fails
C21_PartialStored(old, partial) == partial

\* what *val holds after read_mem32 returned an error: the assignment
\* "*val = (data_hi << 16) | data_lo" is never reached
ValOnError(old, partial) == old

\* a transfer fails (ret < 0): the accessor returns ret at once and stores
\* nothing through val
XferFail(c) ==
    /\ cop[c].kind # "none"
    /\ \E err \in BusErrnos :
         LET x == CurXfers(c)[cpc[c] + 1]
             log == Append(clog[c], [dir |-> x.dir, reg |-> x.reg,
                                      val |-> x.val, ok |-> FALSE])
         IN  /\ bus' = bus
             /\ clog' = [clog EXCEPT ![c] = log]
             /\ Return(c, err,
                       ValOnError(dst32[c], Compose32(cacc[c].data_hi, 1)),
                       dst64[c], log)
    /\ UNCHANGED <<cacc, nops>>
    /\ UNCHANGED <<fw_loaded, loaderVars, lifeVars, featVars>>

\* read_mem64 with the two words composed the other way round
C10_Read64Swapped(val_hi, val_lo) == Compose64(val_lo, val_hi)

\* the result of read_mem64 once both words are in
Read64Value(val_hi, val_lo) == Compose64(val_hi, val_lo)

\* a transfer succeeds
XferOk(c) ==
    /\ cop[c].kind # "none"
    /\ LET x == CurXfers(c)[cpc[c] + 1]
           got == FakeBusRead16(bus, x.reg)
           log == Append(clog[c], [dir |-> x.dir, reg |-> x.reg,
                                    val |-> IF x.dir = "write" THEN x.val
                                            ELSE got,
                                    ok |-> TRUE])
           word == Compose32(cacc[c].data_hi, got)
       IN  /\ bus' = IF x.dir = "write" THEN FakeBusWrite16(bus, x.reg, x.val)
                     ELSE bus
           /\ clog' = [clog EXCEPT ![c] = log]
           /\ IF cpc[c] < 3
              THEN /\ cpc' = [cpc EXCEPT ![c] = cpc[c] + 1]
                   /\ cacc' = IF x.dir = "read"
                              THEN [cacc EXCEPT ![c].data_hi = got]
                              ELSE cacc
                   /\ UNCHANGED <<cop, cword, dst32, dst64, clast, cprev>>
              ELSE CASE cop[c].kind = "write32" ->
                          /\ Return(c, 0, dst32[c], dst64[c], log)
                          /\ UNCHANGED cacc
                     [] cop[c].kind = "read32" ->
                          /\ Return(c, 0, word, dst64[c], log)
                          /\ UNCHANGED cacc
                     [] cop[c].kind = "read64" /\ cword[c] = 0 ->
                          /\ cacc' = [cacc EXCEPT ![c].val_lo = word]
                          /\ cword' = [cword EXCEPT ![c] = 1]
                          /\ cpc' = [cpc EXCEPT ![c] = 0]
                          /\ UNCHANGED <<cop, dst32, dst64, clast, cprev>>
                     [] cop[c].kind = "read64" /\ cword[c] = 1 ->
                          /\ Return(c, 0, dst32[c],
                                    Read64Value(word, cacc[c].val_lo), log)
                          /\ UNCHANGED cacc
    /\ UNCHANGED nops
    /\ UNCHANGED <<fw_loaded, loaderVars, lifeVars, featVars>>


(***************************************************************************)
(* mxl371x_load_firmware, one 32-bit access per step.  Here the bus and    *)
(* the device are the environment: every access either fails at one of its *)
(* four transfers or succeeds, and a status read returns any value.        *)
(***************************************************************************)
SRE_CPU_RESET == 8
SRE_CPU_RUN == 0
RESET_HOLD_MS == 100
RELEASE_WAIT_MS == 500
POLL_INTERVAL_MS == 100

\* a ready loop that polls once more
C26_OneMorePoll == 50 + 1

\* for (i = 0; i < 50; i++)
FW_READY_POLLS == 50

\* the byte at place k (from 1) of the image with byte pattern p
FwPatterns == {"count", "ones", "mixed"}

FwByte(p, k) ==
    CASE p = "count" -> k
      [] p = "ones"  -> \Hff
      [] p = "mixed" -> IF k % 2 = 1 THEN \H80 ELSE \H00

NoFw == [size |-> -1, data |-> <<>>]

\* the warm-boot check has not read the status register in this call
NoCheck == [done |-> FALSE, failed |-> FALSE, running |-> FALSE,
            error |-> FALSE]

\* the images request_firmware can give: three byte patterns of every
\* length up to MaxFwLen, and one image of MXL371X_MAX_FW_SIZE + 1 bytes,
\* whose bytes are never read
Images ==
    {[size |-> n, data |-> [k \in 1 .. n |-> FwByte(p, k)]] :
        n \in 0 .. MaxFwLen, p \in FwPatterns}
    \cup {[size |-> MXL371X_MAX_FW_SIZE + 1, data |-> <<>>]}

\* errors request_firmware can return
RequestErrnos == {-ENOENT}

\* values the firmware-status register can show
FwStatusValues == 0 .. 7

StatusRunning(st) == (st \div MXL371X_FW_RUNNING) % 2 = 1

StatusError(st) == (st \div MXL371X_FW_ERROR) % 2 = 1

\* a loader that accepts an empty image
C7_EmptyAccepted(size) == size > MXL371X_MAX_FW_SIZE

\* fw->size == 0 || fw->size > MXL371X_MAX_FW_SIZE
FwSizeInvalid(size) == size = 0 \/ size > MXL371X_MAX_FW_SIZE

\* the upload loop packing the first byte of a word highest
C6_OrByteBigEndian(w, b, j) ==
    CASE j = 3 -> [w EXCEPT !.lo = w.lo + b]
      [] j = 2 -> [w EXCEPT !.lo = w.lo + b * 256]
      [] j = 1 -> [w EXCEPT !.hi = w.hi + b]
      [] j = 0 -> [w EXCEPT !.hi = w.hi + b * 256]

\* word |= ((u32)fw->data[i + j]) << (j * 8)
OrByte(w, b, j) ==
    CASE j = 0 -> [w EXCEPT !.lo = w.lo + b]
      [] j = 1 -> [w EXCEPT !.lo = w.lo + b * 256]
      [] j = 2 -> [w EXCEPT !.hi = w.hi + b]
      [] j = 3 -> [w EXCEPT !.hi = w.hi + b * 256]

RECURSIVE PackFrom(_, _, _)
\* for (j = ...; j < 4 && (i + j) < fw->size; j++) word |= ...
PackFrom(f, i, j) ==
    IF j < 4 /\ (i + j) < f.size
    THEN OrByte(PackFrom(f, i, j + 1), f.data[i + j + 1], j)
    ELSE Zero32

\* the word the upload loop builds at offset i
PackWord(f, i) == PackFrom(f, i, 0)

\* outcomes of one 32-bit access: failAt = 0, all four transfers succeed
\* (a read delivers st); failAt = k in 1..4, the k-th transfer is issued and
\* fails with err
WriteOutcomes ==
    {[failAt |-> 0, err |-> 0]}
    \cup {[failAt |-> k, err |-> e] : k \in 1 .. 4, e \in BusErrnos}

ReadOutcomes ==
    {[failAt |-> 0, err |-> 0, st |-> v] : v \in FwStatusValues}
    \cup {[failAt |-> k, err |-> e, st |-> 0] : k \in 1 .. 4, e \in BusErrnos}

IssuedWrites(xfers, failAt) ==
    WritesIn(xfers, IF failAt = 0 THEN 4 ELSE failAt)

LoaderReturn(r, m) ==
    /\ lpc' = "returned"
    /\ ret' = r
    /\ msg' = m

\* a loader without the early return
C3_NoEarlyReturn == FALSE

\* if (priv->fw_loaded) return 0;
AlreadyLoaded == fw_loaded

LoadEnter ==
    /\ lpc \in {"idle", "returned"}
    /\ ncalls < MaxCalls
    /\ ncalls' = ncalls + 1
    /\ entry_loaded' = fw_loaded
    /\ chk' = NoCheck
    /\ wlog' = <<>>
    /\ busWrites' = 0
    /\ polls' = 0
    /\ firstRun' = 0
    /\ firstErr' = 0
    /\ clock' = 0
    /\ li' = 0
    /\ fw' = NoFw
    /\ IF AlreadyLoaded
       THEN LoaderReturn(0, "already_loaded")
       ELSE /\ lpc' = "check"
            /\ ret' = 0
            /\ msg' = ""
    /\ UNCHANGED fw_loaded
    /\ UNCHANGED <<busVars, lifeVars, featVars>>

\* a warm-boot check that does not trust the running bit next to the
\* error bit
C23_ErrorBitWins(rd, st) ==
    ~(rd < 0) /\ StatusRunning(st) /\ ~StatusError(st)

\* what mxl371x_check_firmware_running returns for a read that ended with
\* rd (0 or an error) and the value st
CheckFirmwareRunning(rd, st) == ~(rd < 0) /\ StatusRunning(st)

LoadCheckRunning ==
    /\ lpc = "check"
    /\ \E o \in ReadOutcomes :
         LET xfers == mxl371x_read_mem32_xfers(U32Of(MXL371X_FW_STATUS_REG))
         IN  /\ busWrites' = busWrites + IssuedWrites(xfers, o.failAt)
             /\ chk' = [done |-> TRUE, failed |-> o.failAt # 0,
                        running |-> o.failAt = 0 /\ StatusRunning(o.st),
                        error |-> o.failAt = 0 /\ StatusError(o.st)]
             /\ IF CheckFirmwareRunning(o.err, o.st)
                THEN /\ fw_loaded' = TRUE
                     /\ LoaderReturn(0, "skipped")
                ELSE /\ lpc' = "request"
                     /\ UNCHANGED <<fw_loaded, ret, msg>>
    /\ UNCHANGED <<li, fw, wlog, polls, firstRun, firstErr, clock, ncalls,
                   entry_loaded>>
    /\ UNCHANGED <<busVars, lifeVars, featVars>>

LoadRequest ==
    /\ lpc = "request"
    /\ \/ \E err \in RequestErrnos :
            /\ LoaderReturn(err, "request_failed")
            /\ UNCHANGED fw
       \/ \E img \in Images :
            /\ fw' = img
            /\ IF FwSizeInvalid(img.size)
               THEN LoaderReturn(-EINVAL, "invalid_size")
               ELSE /\ lpc' = "reset"
                    /\ UNCHANGED <<ret, msg>>
    /\ UNCHANGED <<fw_loaded, li, wlog, busWrites, polls, firstRun, firstErr,
                   clock, ncalls, entry_loaded, chk>>
    /\ UNCHANGED <<busVars, lifeVars, featVars>>

\* one mxl371x_write_mem32 of the loader
LoaderWrite(step, addr, val, failAt, err) ==
    LET xfers == mxl371x_write_mem32_xfers(addr, val)
    IN  /\ busWrites' = busWrites + IssuedWrites(xfers, failAt)
        /\ wlog' = Append(wlog, [step |-> step, addr |-> addr, val |-> val,
                                 ret |-> IF failAt = 0 THEN 0 ELSE err])

LoadReset ==
    /\ lpc = "reset"
    /\ \E o \in WriteOutcomes :
         /\ LoaderWrite("reset", U32Of(SRE_CPU_SRC_SEL_CSR),
                        U32Of(SRE_CPU_RESET), o.failAt, o.err)
         /\ IF o.failAt # 0
            THEN /\ LoaderReturn(o.err, "reset_failed")
                 /\ UNCHANGED <<li, clock>>
            ELSE /\ clock' = clock + RESET_HOLD_MS
                 /\ li' = 0
                 /\ lpc' = "upload"
                 /\ UNCHANGED <<ret, msg>>
    /\ UNCHANGED <<fw_loaded, fw, polls, firstRun, firstErr, ncalls,
                   entry_loaded, chk>>
    /\ UNCHANGED <<busVars, lifeVars, featVars>>

\* an upload loop that ignores the result of the write
C8_WriteResultIgnored(r) == FALSE

\* if (ret < 0) after the write of one firmware word
UploadWriteFailed(r) == r < 0

\* an upload loop that falls through to the ready loop
C22_PollBeforeRelease(i, size) == IF i < size THEN "upload" ELSE "poll"

\* where the loader goes after the word at offset i - 4 is written: the
\* next iteration of "for (i = 0; i < fw->size; i += 4)" or, past the
\* loop, the release write
UploadNext(i, size) == IF i < size THEN "upload" ELSE "release"

LoadUpload ==
    /\ lpc = "upload"
    /\ li < fw.size
    /\ \E o \in WriteOutcomes :
         /\ LoaderWrite("upload", U32Of(MXL371X_FW_BASE_ADDR + li),
                        PackWord(fw, li), o.failAt, o.err)
         /\ IF UploadWriteFailed(o.err)
            THEN /\ LoaderReturn(o.err, "write_failed")
                 /\ UNCHANGED li
            ELSE /\ li' = li + 4
                 /\ lpc' = UploadNext(li + 4, fw.size)
                 /\ UNCHANGED <<ret, msg>>
    /\ UNCHANGED <<fw_loaded, fw, polls, firstRun, firstErr, clock, ncalls,
                   entry_loaded, chk>>
    /\ UNCHANGED <<busVars, lifeVars, featVars>>

LoadRelease ==
    /\ lpc = "release"
    /\ \E o \in WriteOutcomes :
         /\ LoaderWrite("release", U32Of(SRE_CPU_SRC_SEL_CSR),
                        U32Of(SRE_CPU_RUN), o.failAt, o.err)
         /\ IF o.failAt # 0
            THEN /\ LoaderReturn(o.err, "release_failed")
                 /\ UNCHANGED <<li, clock>>
            ELSE /\ clock' = clock + RELEASE_WAIT_MS
                 /\ li' = 0
                 /\ lpc' = "poll"
                 /\ UNCHANGED <<ret, msg>>
    /\ UNCHANGED <<fw_loaded, fw, polls, firstRun, firstErr, ncalls,
                   entry_loaded, chk>>
    /\ UNCHANGED <<busVars, lifeVars, featVars>>

\* a ready loop that tests the error bit before the running bit
C4_ErrorBitFirst(st) ==
    IF StatusError(st) THEN "fw_error"
    ELSE IF StatusRunning(st) THEN "started"
    ELSE "again"

\* a ready loop that keeps polling on the error bit
C5_ErrorBitIgnored(st) == IF StatusRunning(st) THEN "started" ELSE "again"

\* what one iteration of the ready loop does with the value it read:
\* "started", "fw_error" or "again"
PollVerdict(st) ==
    IF StatusRunning(st) THEN "started"
    ELSE IF StatusError(st) THEN "fw_error"
    ELSE "again"

LoadPoll ==
    /\ lpc = "poll"
    /\ li < FW_READY_POLLS
    /\ \E o \in ReadOutcomes :
         LET xfers == mxl371x_read_mem32_xfers(U32Of(MXL371X_FW_STATUS_REG))
             n == polls + 1
             st == o.st
         IN  /\ busWrites' = busWrites + IssuedWrites(xfers, o.failAt)
             /\ polls' = n
             /\ IF o.failAt # 0
                THEN /\ LoaderReturn(o.err, "status_read_failed")
                     /\ UNCHANGED <<fw_loaded, li, clock, firstRun, firstErr>>
                ELSE /\ firstRun' = IF firstRun = 0 /\ StatusRunning(st)
                                    THEN n ELSE firstRun
                     /\ firstErr' = IF firstErr = 0 /\ StatusError(st)
                                    THEN n ELSE firstErr
                     /\ CASE PollVerdict(st) = "started" ->
                               /\ fw_loaded' = TRUE
                               /\ LoaderReturn(0, "started")
                               /\ UNCHANGED <<li, clock>>
                          [] PollVerdict(st) = "fw_error" ->
                               /\ LoaderReturn(-EIO, "fw_error")
                               /\ UNCHANGED <<fw_loaded, li, clock>>
                          [] PollVerdict(st) = "again" ->
                               /\ clock' = clock + POLL_INTERVAL_MS
                               /\ li' = li + 1
                               /\ IF li + 1 < FW_READY_POLLS
                                  THEN UNCHANGED <<lpc, ret, msg>>
                                  ELSE LoaderReturn(-ETIMEDOUT, "timeout")
                               /\ UNCHANGED fw_loaded
    /\ UNCHANGED <<fw, wlog, ncalls, entry_loaded, chk>>
    /\ UNCHANGED <<busVars, lifeVars, featVars>>

LoaderInit ==
    /\ fw_loaded = FALSE
    /\ lpc = "idle"
    /\ li = 0
    /\ fw = NoFw
    /\ ret = 0
    /\ msg = ""
    /\ wlog = <<>>
    /\ busWrites = 0
    /\ polls = 0
    /\ firstRun = 0
    /\ firstErr = 0
    /\ clock = 0
    /\ ncalls = 0
    /\ entry_loaded = FALSE
    /\ chk = NoCheck


(***************************************************************************)
(* The phylib callbacks and the delayed work priv->stats_poll.             *)
(*                                                                         *)
(* stats_poll is [init, pending, armed, queued, stale]:                    *)
(*   init     INIT_DELAYED_WORK has run on it (after devm_kzalloc it is    *)
(*            all zero: no work function, no timer function);              *)
(*   pending  the work's PENDING bit;                                      *)
(*   armed    its timer is linked in the timer wheel;                      *)
(*   queued   the work is on a worklist, waiting for a worker;             *)
(*   stale    timer-wheel entries left behind when INIT_DELAYED_WORK ran   *)
(*            on the armed timer: they still expire and queue the work.    *)
(***************************************************************************)
\* devm_kzalloc: every field zero
ZeroedWork == [init |-> FALSE, pending |-> FALSE, armed |-> FALSE,
               queued |-> FALSE, stale |-> 0]

\* INIT_DELAYED_WORK: work data and list head and timer are set afresh.
\* On an armed timer the wheel entry is not unlinked: it stays behind
\* (keep = "stale"), or a debug-objects build deletes it (keep = "fixup").
InitDelayedWork(w, keep) ==
    [init |-> TRUE, pending |-> FALSE, armed |-> FALSE, queued |-> w.queued,
     stale |-> IF w.armed /\ keep = "stale" THEN w.stale + 1 ELSE w.stale]

\* schedule_delayed_work(&priv->stats_poll, HZ): nothing if PENDING is set;
\* else sets it and arms the timer (a zeroed timer has no function and is
\* not armed)
ScheduleDelayedWork(w) ==
    IF w.pending THEN w
    ELSE [w EXCEPT !.pending = TRUE, !.armed = w.init]

\* cancel_delayed_work_sync, first half: take PENDING away from the timer or
\* the worklist
CanGrabPending(w) == w.armed \/ ~w.pending \/ w.queued

GrabPending(w) == [w EXCEPT !.pending = TRUE, !.armed = FALSE, !.queued = FALSE]

\* cancel_delayed_work_sync, second half, once the work function is not
\* running: PENDING is cleared
ClearPending(w) == [w EXCEPT !.pending = FALSE]

NoGate == [fw |-> FALSE, att |-> FALSE]

NoReader == [by |-> "none", reader |-> "none", loaded |-> FALSE]

\* a reader is called
ReaderCall(who, which) == [by |-> who, reader |-> which, loaded |-> fw_loaded]

LifeInit ==
    /\ phase = "unbound"
    /\ attached_dev = FALSE
    /\ sysfs_group = FALSE
    /\ stats_poll = ZeroedWork
    /\ tick_pc = "idle"
    /\ tick_reads = FALSE
    /\ cb = "none"
    /\ cancelled = FALSE
    /\ ninit = 0
    /\ tick_gate = NoGate
    /\ tick_ops = <<>>
    /\ reader_start = NoReader
    /\ fw_writer = "none"
    /\ init_log = <<>>
    /\ init_ret = 0
    /\ init_failed = {}

Serving == phase = "bound" /\ cb = "none"

mxl371x_probe ==
    /\ phase = "unbound"
    /\ phase' = "bound"
    /\ stats_poll' = ZeroedWork
    /\ fw_loaded' = FALSE
    /\ UNCHANGED <<attached_dev, sysfs_group, tick_pc, tick_reads, cb,
                   cancelled, ninit>>
    /\ UNCHANGED obsVars
    /\ UNCHANGED <<busVars, loaderVars, featVars>>

\* phy_attach_direct / phy_detach set and clear phydev->attached_dev
Attach ==
    /\ Serving
    /\ ~attached_dev
    /\ attached_dev' = TRUE
    /\ UNCHANGED <<fw_loaded, phase, sysfs_group, stats_poll, tick_pc,
                   tick_reads, cb, cancelled, ninit>>
    /\ UNCHANGED obsVars
    /\ UNCHANGED <<busVars, loaderVars, featVars>>

Detach ==
    /\ Serving
    /\ attached_dev
    /\ attached_dev' = FALSE
    /\ UNCHANGED <<fw_loaded, phase, sysfs_group, stats_poll, tick_pc,
                   tick_reads, cb, cancelled, ninit>>
    /\ UNCHANGED obsVars
    /\ UNCHANGED <<busVars, loaderVars, featVars>>

\* the steps of mxl371x_config_init, in program order
InitSteps ==
    << "get_device_info", "check_firmware_running", "load_firmware",
       "set_default_guid", "read_moca_status", "config_sgmii",
       "sysfs_create_group", "hwmon_init", "stats_poll" >>

\* an init that gives up when the GUID cannot be set
C18_GuidFatal == TRUE

\* whether a failure of mxl371x_set_default_guid ends mxl371x_config_init
GuidFailureIsFatal == FALSE

\* mxl371x_config_init.  devinfo, warm, load, guid, sgmii, sysfs are what
\* the device and the kernel answer: get_device_info succeeds, the
\* warm-boot check sees the running bit, load_firmware succeeds,
\* set_default_guid succeeds, config_sgmii succeeds, sysfs has room for the
\* group.
mxl371x_config_init ==
    /\ Serving
    /\ ninit < MaxInit
    /\ ninit' = ninit + 1
    /\ \E devinfo, warm, load, guid, sgmii, sysfs \in BOOLEAN,
          keep \in {"stale", "fixup", "oops"} :
         LET loaded1 == fw_loaded \/ warm
             reachedLoad == devinfo
             loadOk == loaded1 \/ load
             reachedGuid == devinfo /\ loadOk
             reachedStatus == reachedGuid /\ (guid \/ ~GuidFailureIsFatal)
             reachedSysfs == reachedStatus /\ sgmii
             sysfsOk == ~sysfs_group /\ sysfs
             reachedWork == reachedSysfs /\ sysfsOk
             last == IF ~devinfo THEN 1
                     ELSE IF ~loadOk THEN 3
                     ELSE IF ~reachedStatus THEN 4
                     ELSE IF ~sgmii THEN 6
                     ELSE IF ~sysfsOk THEN 7
                     ELSE 9
             failedAt(k) ==
                 CASE k = 1 -> ~devinfo
                   [] k = 3 -> reachedLoad /\ ~loadOk
                   [] k = 4 -> reachedGuid /\ ~guid
                   [] k = 6 -> reachedStatus /\ ~sgmii
                   [] k = 7 -> reachedSysfs /\ ~sysfsOk
                   [] OTHER -> FALSE
             r == IF ~devinfo THEN -EIO
                  ELSE IF ~loadOk THEN -ETIMEDOUT
                  ELSE IF ~reachedStatus THEN -EIO
                  ELSE IF ~sgmii THEN -EINVAL
                  ELSE IF ~sysfsOk
                       THEN (IF sysfs_group THEN -EEXIST ELSE -ENOMEM)
                  ELSE 0
         IN  /\ fw_loaded' = IF reachedLoad THEN loadOk ELSE fw_loaded
             /\ fw_writer' = IF reachedLoad /\ ~fw_loaded /\ loadOk
                             THEN (IF warm THEN "check_firmware_running"
                                   ELSE "load_firmware")
                             ELSE fw_writer
             /\ reader_start' = IF reachedStatus
                                THEN [by |-> "init",
                                      reader |-> "status",
                                      loaded |-> loadOk]
                                ELSE reader_start
             /\ init_log' = SubSeq(InitSteps, 1, last)
             /\ init_ret' = r
             /\ init_failed' = {InitSteps[k] : k \in {j \in 1 .. 9 : failedAt(j)}}
             \* sysfs_create_group on files that exist fails with -EEXIST
             \* and removes the files of the group
             /\ sysfs_group' = IF reachedSysfs THEN sysfsOk ELSE sysfs_group
             /\ IF reachedWork
                THEN /\ keep = "oops" => stats_poll.armed
                     /\ IF keep = "oops"
                        THEN /\ phase' = "oops"
                             /\ UNCHANGED <<stats_poll, cancelled>>
                        ELSE /\ stats_poll' = ScheduleDelayedWork(
                                       InitDelayedWork(stats_poll, keep))
                             /\ cancelled' = FALSE
                             /\ UNCHANGED phase
                ELSE /\ keep = "fixup"
                     /\ UNCHANGED <<stats_poll, cancelled, phase>>
    /\ UNCHANGED <<attached_dev, tick_pc, tick_reads, cb, tick_gate, tick_ops>>
    /\ UNCHANGED <<busVars, loaderVars, featVars>>

\* mxl371x_read_status: genphy_read_status, then the status reader if the
\* firmware is loaded
mxl371x_read_status ==
    /\ Serving
    /\ \E genphy \in BOOLEAN :
          reader_start' = IF genphy /\ fw_loaded
                          THEN ReaderCall("query", "status")
                          ELSE reader_start
    /\ UNCHANGED <<fw_loaded, phase, attached_dev, sysfs_group, stats_poll,
                   tick_pc, tick_reads, cb, cancelled, ninit, tick_gate,
                   tick_ops, fw_writer, init_log, init_ret, init_failed>>
    /\ UNCHANGED <<busVars, loaderVars, featVars>>

\* the timer of stats_poll expires: delayed_work_timer_fn queues the work
TimerFire ==
    /\ phase \in {"bound", "removed"}
    /\ stats_poll.armed
    /\ stats_poll' = [stats_poll EXCEPT !.armed = FALSE, !.queued = TRUE]
    /\ UNCHANGED <<fw_loaded, phase, attached_dev, sysfs_group, tick_pc,
                   tick_reads, cb, cancelled, ninit>>
    /\ UNCHANGED obsVars
    /\ UNCHANGED <<busVars, loaderVars, featVars>>

\* a wheel entry left behind by INIT_DELAYED_WORK expires
StaleTimerFire ==
    /\ phase \in {"bound", "removed"}
    /\ stats_poll.stale > 0
    /\ stats_poll' = [stats_poll EXCEPT !.stale = @ - 1, !.queued = TRUE]
    /\ UNCHANGED <<fw_loaded, phase, attached_dev, sysfs_group, tick_pc,
                   tick_reads, cb, cancelled, ninit>>
    /\ UNCHANGED obsVars
    /\ UNCHANGED <<busVars, loaderVars, featVars>>

\* a worker takes the work: PENDING is cleared and the function is called
TickStart ==
    /\ phase \in {"bound", "removed"}
    /\ stats_poll.queued
    /\ tick_pc = "idle"
    /\ stats_poll' = [stats_poll EXCEPT !.queued = FALSE, !.pending = FALSE]
    /\ tick_pc' = "gate"
    /\ tick_reads' = FALSE
    /\ tick_ops' = <<>>
    /\ tick_gate' = NoGate
    /\ UNCHANGED <<fw_loaded, phase, attached_dev, sysfs_group, cb,
                   cancelled, ninit, reader_start, fw_writer, init_log,
                   init_ret, init_failed>>
    /\ UNCHANGED <<busVars, loaderVars, featVars>>

\* a tick that looks at the firmware only
C16_GateLoadedOnly == fw_loaded

\* if (priv->fw_loaded && phydev->attached_dev)
TickGate == fw_loaded /\ attached_dev

\* the first statement of mxl371x_stats_poll_work: the test of the gate
TickBody ==
    /\ phase \in {"bound", "removed"}
    /\ tick_pc = "gate"
    /\ tick_gate' = [fw |-> fw_loaded, att |-> attached_dev]
    /\ tick_reads' = TickGate
    /\ tick_pc' = IF TickGate THEN "stats" ELSE "resched"
    /\ UNCHANGED <<fw_loaded, phase, attached_dev, sysfs_group, stats_poll,
                   cb, cancelled, ninit, tick_ops, reader_start, fw_writer,
                   init_log, init_ret, init_failed>>
    /\ UNCHANGED <<busVars, loaderVars, featVars>>

\* mxl371x_update_stats(phydev), called by the tick
TickStats ==
    /\ phase \in {"bound", "removed"}
    /\ tick_pc = "stats"
    /\ tick_ops' = Append(tick_ops, "stats")
    /\ reader_start' = ReaderCall("tick", "stats")
    /\ tick_pc' = "status"
    /\ UNCHANGED <<fw_loaded, phase, attached_dev, sysfs_group, stats_poll,
                   tick_reads, cb, cancelled, ninit, tick_gate, fw_writer,
                   init_log, init_ret, init_failed>>
    /\ UNCHANGED <<busVars, loaderVars, featVars>>

\* mxl371x_read_moca_status(phydev), called by the tick
TickStatus ==
    /\ phase \in {"bound", "removed"}
    /\ tick_pc = "status"
    /\ tick_ops' = Append(tick_ops, "status")
    /\ reader_start' = ReaderCall("tick", "status")
    /\ tick_pc' = "resched"
    /\ UNCHANGED <<fw_loaded, phase, attached_dev, sysfs_group, stats_poll,
                   tick_reads, cb, cancelled, ninit, tick_gate, fw_writer,
                   init_log, init_ret, init_failed>>
    /\ UNCHANGED <<busVars, loaderVars, featVars>>

\* schedule_delayed_work(&priv->stats_poll, HZ) at the end of the tick
TickResched ==
    /\ phase \in {"bound", "removed"}
    /\ tick_pc = "resched"
    /\ stats_poll' = ScheduleDelayedWork(stats_poll)
    /\ tick_pc' = "idle"
    /\ UNCHANGED <<fw_loaded, phase, attached_dev, sysfs_group, tick_reads,
                   cb, cancelled, ninit>>
    /\ UNCHANGED obsVars
    /\ UNCHANGED <<busVars, loaderVars, featVars>>

\* a callback enters cancel_delayed_work_sync(&priv->stats_poll)
CancelEnter(who) ==
    /\ Serving
    /\ cb' = who
    /\ UNCHANGED <<fw_loaded, phase, attached_dev, sysfs_group, stats_poll,
                   tick_pc, tick_reads, cancelled, ninit>>
    /\ UNCHANGED obsVars
    /\ UNCHANGED <<busVars, loaderVars, featVars>>

\* it takes PENDING (it spins while the bit is set with the work neither
\* on a timer nor on a worklist)
CancelGrab(who) ==
    /\ phase = "bound"
    /\ cb = who
    /\ CanGrabPending(stats_poll)
    /\ stats_poll' = GrabPending(stats_poll)
    /\ cb' = IF who = "suspend_grab" THEN "suspend_flush" ELSE "remove_flush"
    /\ UNCHANGED <<fw_loaded, phase, attached_dev, sysfs_group, tick_pc,
                   tick_reads, cancelled, ninit>>
    /\ UNCHANGED obsVars
    /\ UNCHANGED <<busVars, loaderVars, featVars>>

\* flush_work has nothing left to wait for: the work is neither on a
\* worklist nor running, and the cancel returns
CancelDone == tick_pc = "idle" /\ ~stats_poll.queued

mxl371x_suspend_enter == CancelEnter("suspend_grab")

mxl371x_suspend_grab == CancelGrab("suspend_grab")

mxl371x_suspend ==
    /\ phase = "bound"
    /\ cb = "suspend_flush"
    /\ CancelDone
    /\ stats_poll' = ClearPending(stats_poll)
    /\ cb' = "none"
    /\ cancelled' = TRUE
    /\ UNCHANGED <<fw_loaded, phase, attached_dev, sysfs_group, tick_pc,
                   tick_reads, ninit>>
    /\ UNCHANGED obsVars
    /\ UNCHANGED <<busVars, loaderVars, featVars>>

mxl371x_remove_enter == CancelEnter("remove_grab")

mxl371x_remove_grab == CancelGrab("remove_grab")

mxl371x_remove ==
    /\ phase = "bound"
    /\ cb = "remove_flush"
    /\ CancelDone
    /\ stats_poll' = ClearPending(stats_poll)
    /\ cb' = "none"
    /\ cancelled' = TRUE
    /\ sysfs_group' = FALSE
    /\ phase' = "removed"
    /\ UNCHANGED <<fw_loaded, attached_dev, tick_pc, tick_reads, ninit>>
    /\ UNCHANGED obsVars
    /\ UNCHANGED <<busVars, loaderVars, featVars>>

mxl371x_resume ==
    /\ Serving
    /\ fw_loaded' = FALSE
    /\ fw_writer' = IF fw_loaded THEN "resume" ELSE fw_writer
    /\ UNCHANGED <<tick_gate, tick_ops, reader_start, init_log, init_ret,
                   init_failed>>
    /\ stats_poll' = ScheduleDelayedWork(stats_poll)
    /\ cancelled' = FALSE
    /\ UNCHANGED <<phase, attached_dev, sysfs_group, tick_pc, tick_reads,
                   cb, ninit>>
    /\ UNCHANGED <<busVars, loaderVars, featVars>>

(***************************************************************************)
(* The temperature sensor: mxl371x_read_temp_raw, mxl371x_calc_temp and    *)
(* mxl371x_hwmon_read, one 32-bit access per step.  The bus and the sensor *)
(* are the environment: an access fails or succeeds, and a read of the     *)
(* data register delivers any sample.                                      *)
(*                                                                         *)
(* A signed 64-bit value is kept as [hi, lo] standing for                  *)
(* hi * 2^16 + lo with lo in 0 .. 2^16 - 1 (hi may be negative).           *)
(***************************************************************************)
MXL371X_TSENS_CTRL_REG == \H08200200
MXL371X_TSENS_DATA_REG == \H08200204
MXL371X_RADIO_TSENS_REG1 == \H0c14c110
MXL371X_RADIO_TSENS_REG2 == \H0c14c100
MXL371X_RADIO_TSENS_REG3 == \H0c14c108
MXL371X_TSENS_COEFF_A == 1338680
MXL371X_TSENS_COEFF_B == 277770
MXL371X_TSENS_RSSI_MAX == 524288
EOPNOTSUPP == 95

\* t1 < t0 on u32
Less32(a, b) == a.hi < b.hi \/ (a.hi = b.hi /\ a.lo < b.lo)

\* t1 - t0 on u32 (modulo 2^32)
Sub32(a, b) ==
    LET lo == a.lo - b.lo
        borrow == IF lo < 0 THEN 1 ELSE 0
    IN  [hi |-> (a.hi - b.hi - borrow) % TwoTo16, lo |-> lo % TwoTo16]

\* (delta * MXL371X_TSENS_COEFF_A) / MXL371X_TSENS_RSSI_MAX in s64: the
\* product by 16-bit limbs (it stays below 2^53), then the division, which
\* RSSI_MAX = 8 * 2^16 makes a drop of the lowest limb and a division by 8
TempScale(delta) ==
    LET a_hi == MXL371X_TSENS_COEFF_A \div TwoTo16
        a_lo == MXL371X_TSENS_COEFF_A % TwoTo16
        p0 == delta.lo * a_lo
        p1 == delta.hi * a_lo + delta.lo * a_hi + (p0 \div TwoTo16)
        l1 == p1 % TwoTo16
        l2 == delta.hi * a_hi + (p1 \div TwoTo16)
        d  == MXL371X_TSENS_RSSI_MAX \div TwoTo16
    IN  [hi |-> l2 \div d, lo |-> ((l2 % d) * TwoTo16 + l1) \div d]

\* temp -= MXL371X_TSENS_COEFF_B in s64
TempOffset(w) ==
    LET lo == w.lo - (MXL371X_TSENS_COEFF_B % TwoTo16)
        borrow == IF lo < 0 THEN 1 ELSE 0
    IN  [hi |-> w.hi - (MXL371X_TSENS_COEFF_B \div TwoTo16) - borrow,
         lo |-> lo % TwoTo16]

\* the s64 temp of mxl371x_calc_temp for t0 <= t1
Temp64(a, b) == TempOffset(TempScale(Sub32(b, a)))

\* (int)temp: the low 32 bits of the s64, read as a signed int
IntOfS64(w) ==
    LET h == w.hi % TwoTo16
    IN  (IF h >= TwoTo16 \div 2 THEN h - TwoTo16 ELSE h) * TwoTo16 + w.lo

mxl371x_calc_temp(a, b) ==
    IF Less32(b, a) THEN -EINVAL ELSE IntOfS64(Temp64(a, b))

\* the accesses of mxl371x_read_temp_raw, in program order
TempSequence ==
    << [op |-> "write", addr |-> U32Of(MXL371X_RADIO_TSENS_REG1), val |-> U32Of(\H31000001)],
       [op |-> "write", addr |-> U32Of(MXL371X_RADIO_TSENS_REG2), val |-> U32Of(\H00000401)],
       [op |-> "write", addr |-> U32Of(MXL371X_RADIO_TSENS_REG3), val |-> U32Of(\H00000001)],
       [op |-> "write", addr |-> U32Of(MXL371X_TSENS_CTRL_REG),   val |-> U32Of(\H01130103)],
       [op |-> "read",  addr |-> U32Of(MXL371X_TSENS_DATA_REG),   val |-> Zero32],
       [op |-> "write", addr |-> U32Of(MXL371X_TSENS_CTRL_REG),   val |-> U32Of(\H01130003)],
       [op |-> "write", addr |-> U32Of(MXL371X_RADIO_TSENS_REG2), val |-> U32Of(\H00000411)],
       [op |-> "write", addr |-> U32Of(MXL371X_TSENS_CTRL_REG),   val |-> U32Of(\H01130003)],
       [op |-> "write", addr |-> U32Of(MXL371X_TSENS_CTRL_REG),   val |-> U32Of(\H01130103)],
       [op |-> "read",  addr |-> U32Of(MXL371X_TSENS_DATA_REG),   val |-> Zero32] >>

\* samples the data register can deliver
TempSamples ==
    {Zero32, U32Of(50), U32Of(100), U32Of(108779), U32Of(524288),
     U32Of(841161097), U32Of(841161098), [hi |-> TwoTo16 - 1, lo |-> TwoTo16 - 1]}

\* the long the caller's *val holds before a call
HwmonValInit == 0 - 1

TempInit ==
    /\ tpc = "idle"
    /\ ti = 1
    /\ t0 = Zero32
    /\ t1 = Zero32
    /\ hret = 0
    /\ hval = HwmonValInit
    /\ hstored = FALSE
    /\ tlog = <<>>
    /\ nreads = 0

HwmonReturn(r) ==
    /\ tpc' = "returned"
    /\ hret' = r

\* mxl371x_hwmon_read up to the call of mxl371x_read_temp_raw
mxl371x_hwmon_read ==
    /\ tpc \in {"idle", "returned"}
    /\ nreads < MaxTempReads
    /\ nreads' = nreads + 1
    /\ tlog' = <<>>
    /\ hstored' = FALSE
    /\ \E type \in {"hwmon_temp", "other"}, attr \in {"hwmon_temp_input", "other"} :
         IF type # "hwmon_temp" \/ attr # "hwmon_temp_input"
         THEN HwmonReturn(-EOPNOTSUPP)
         ELSE /\ tpc' = "raw"
              /\ UNCHANGED hret
    /\ ti' = 1
    /\ UNCHANGED <<t0, t1, hval>>
    /\ UNCHANGED otherThanTemp

\* a sampler that goes on after a failed access
C24_ErrorsIgnored(r) == FALSE

\* "if (ret < 0) return ret;" after each access of the sequence, and after
\* the call of mxl371x_read_temp_raw in mxl371x_hwmon_read
TempAbort(r) == r < 0

\* one access of mxl371x_read_temp_raw; a failure is returned at once by
\* read_temp_raw and by hwmon_read
mxl371x_read_temp_raw ==
    /\ tpc = "raw"
    /\ LET x == TempSequence[ti]
       IN  \E err \in {0} \cup BusErrnos, sample \in TempSamples :
             /\ x.op = "write" => sample = Zero32
             /\ err < 0 => sample = Zero32
             /\ tlog' = Append(tlog, [op |-> x.op, addr |-> x.addr,
                                      val |-> x.val, ret |-> err])
             /\ IF TempAbort(err)
                THEN /\ HwmonReturn(err)
                     /\ UNCHANGED <<ti, t0, t1>>
                ELSE /\ tpc' = IF ti < Len(TempSequence) THEN "raw" ELSE "calc"
                     /\ ti' = ti + 1
                     /\ t0' = IF x.op = "read" /\ ti = 5 THEN sample ELSE t0
                     /\ t1' = IF x.op = "read" /\ ti = 10 THEN sample ELSE t1
                     /\ UNCHANGED hret
    /\ UNCHANGED <<hval, hstored, nreads>>
    /\ UNCHANGED otherThanTemp

\* temp = mxl371x_calc_temp(t0, t1); if (temp == -EINVAL) return -EINVAL;
\* *val = temp; return 0
HwmonCalc ==
    /\ tpc = "calc"
    /\ LET temp == mxl371x_calc_temp(t0, t1)
       IN  IF temp = -EINVAL
           THEN /\ HwmonReturn(-EINVAL)
                /\ UNCHANGED <<hval, hstored>>
           ELSE /\ HwmonReturn(0)
                /\ hval' = temp
                /\ hstored' = TRUE
    /\ UNCHANGED <<ti, t0, t1, tlog, nreads>>
    /\ UNCHANGED otherThanTemp

(***************************************************************************)
(* The two readers: mxl371x_update_stats and mxl371x_read_moca_status, one  *)
(* of their nine reads per step.  The bus and the device are the            *)
(* environment: a read fails or delivers a value.                           *)
(***************************************************************************)
\* the nine counters, in the order mxl371x_update_stats reads them
StatsRegs ==
    [i \in 1 .. 9 |-> U32Of(MOCA_STATS_BASE + 8 * (i - 1))]

\* the nine registers, in the order mxl371x_read_moca_status reads them
StatusRegs ==
    << U32Of(MOCA_LINK_STATUS_REG), U32Of(MOCA_LINK_PHY_RATE_REG),
       U32Of(MOCA_LINK_MOCA_VER_REG), U32Of(MOCA_LINK_NODE_ID_REG),
       U32Of(MOCA_LINK_NC_NODE_ID_REG), U32Of(MOCA_LINK_LOF_REG),
       U32Of(MOCA_LINK_NETWORK_STATE_REG), U32Of(MOCA_LINK_ACTIVE_NODES_REG),
       U32Of(MOCA_SECURITY_STATUS_REG) >>

\* val & m for a mask m below 2^16 of the form 2^k - 1
Mask32(val, m) == [hi |-> 0, lo |-> val.lo % (m + 1)]

\* a reader that stores the words as read
C13_StoreUnmasked(i, val) ==
    IF i = 9 THEN val.lo % 2 = 1 ELSE val

\* what mxl371x_read_moca_status stores for its i-th read
StatusField(i, val) ==
    CASE i = 1 -> Mask32(val, MOCA_LINK_STATUS_MASK)
      [] i = 2 -> Mask32(val, 65535)
      [] i \in {3, 4, 5, 7} -> Mask32(val, 255)
      [] i \in {6, 8} -> val
      [] i = 9 -> (val.lo % (2 * MOCA_SECURITY_ENABLED)) \div MOCA_SECURITY_ENABLED = 1

\* the bits of a and b below 2^n, or-ed
RECURSIVE Or16(_, _, _)
Or16(a, b, n) ==
    IF n = 0 THEN 0
    ELSE (IF a % 2 = 1 \/ b % 2 = 1 THEN 1 ELSE 0)
         + 2 * Or16(a \div 2, b \div 2, n - 1)

\* a | b on int
OrInt(a, b) ==
    LET hi == Or16((a \div TwoTo16) % TwoTo16, (b \div TwoTo16) % TwoTo16, 16)
        lo == Or16(a % TwoTo16, b % TwoTo16, 16)
    IN  (IF hi >= 32768 THEN hi - TwoTo16 ELSE hi) * TwoTo16 + lo

\* what the bus does to the nine reads of one run: "ok", or the failure of
\* the read ("lo": of the first 32-bit read of a counter, "hi": of its second)
FailPatterns ==
    { [i \in 1 .. 9 |-> "ok"],
      [i \in 1 .. 9 |-> IF i = 1 THEN "lo" ELSE "ok"],
      [i \in 1 .. 9 |-> IF i = 9 THEN "hi" ELSE "ok"],
      [i \in 1 .. 9 |-> IF i = 3 THEN "hi" ELSE IF i = 6 THEN "lo" ELSE "ok"],
      [i \in 1 .. 9 |-> IF i % 2 = 1 THEN "lo" ELSE "hi"] }

DataPatterns == {1, 2}

\* the word the device delivers for the i-th status register
StatusWord(d, i) ==
    [hi |-> \Ha5a0 + d, lo |-> \H5a00 + 16 * i + (IF d = 1 THEN 13 ELSE 6)]

\* the two words the device delivers for the i-th counter
StatsLow(d, i) == [hi |-> d, lo |-> i]

StatsHigh(d, i) == [hi |-> \H8000 + d, lo |-> 16 + i]

StatusInit == [i \in 1 .. 9 |-> IF i = 9 THEN FALSE ELSE Zero32]

ReadInit ==
    /\ rpc = "idle"
    /\ ri = 1
    /\ rfail = [i \in 1 .. 9 |-> "ok"]
    /\ rdata = 1
    /\ stats = [i \in 1 .. 9 |-> Zero64]
    /\ status = StatusInit
    /\ rret = 0
    /\ rwarned = FALSE
    /\ rprev = [i \in 1 .. 9 |-> Zero64]
    /\ rlog = <<>>
    /\ nruns = 0

\* a caller enters mxl371x_update_stats
UpdateStatsEnter ==
    /\ rpc = "idle"
    /\ nruns < MaxRuns
    /\ \E f \in FailPatterns, d \in DataPatterns :
          /\ rfail' = f
          /\ rdata' = d
    /\ rpc' = "stats"
    /\ ri' = 1
    /\ rret' = 0
    /\ rprev' = stats
    /\ rlog' = <<>>
    /\ nruns' = nruns + 1
    /\ UNCHANGED <<stats, status, rwarned>>
    /\ UNCHANGED otherThanRead

\* the reader went through its nine reads: if (ret < 0) dev_warn_ratelimited
ReaderEnd(r) ==
    /\ rpc' = "idle"
    /\ ri' = 1
    /\ rwarned' = (r < 0)

\* whether the reader goes on after its i-th read
ReaderGoesOn(i) == i < 9

\* ret = / ret |= mxl371x_read_mem64(phydev, <the ri-th counter>, &priv->stats.<field>)
UpdateStatsRead ==
    /\ rpc = "stats"
    /\ \E e \in (IF rfail[ri] = "ok" THEN {0} ELSE BusErrnos) :
          LET r == IF ri = 1 THEN e ELSE OrInt(rret, e)
          IN  /\ rret' = r
              /\ stats' = IF e = 0
                          THEN [stats EXCEPT ![ri] =
                                  Read64Value(StatsHigh(rdata, ri),
                                              StatsLow(rdata, ri))]
                          ELSE stats
              /\ rlog' = Append(rlog, [addr |-> StatsRegs[ri], ok |-> e = 0])
              /\ IF ReaderGoesOn(ri)
                 THEN /\ ri' = ri + 1
                      /\ UNCHANGED <<rpc, rwarned>>
                 ELSE ReaderEnd(r)
    /\ UNCHANGED <<rfail, rdata, status, rprev, nruns>>
    /\ UNCHANGED otherThanRead

\* a caller enters mxl371x_read_moca_status
ReadMocaStatusEnter ==
    /\ rpc = "idle"
    /\ nruns < MaxRuns
    /\ \E f \in FailPatterns, d \in DataPatterns :
          /\ rfail' = f
          /\ rdata' = d
    /\ rpc' = "status"
    /\ ri' = 1
    /\ rret' = 0
    /\ rprev' = status
    /\ rlog' = <<>>
    /\ nruns' = nruns + 1
    /\ UNCHANGED <<stats, status, rwarned>>
    /\ UNCHANGED otherThanRead

\* if (mxl371x_read_mem32(phydev, <the ri-th register>, &val) == 0)
\*         priv-><field> = <val, masked>; else ret = -EIO;
ReadMocaStatusRead ==
    /\ rpc = "status"
    /\ LET ok == rfail[ri] = "ok"
           r  == IF ok THEN rret ELSE -EIO
       IN  /\ rret' = r
           /\ status' = IF ok
                        THEN [status EXCEPT ![ri] =
                                StatusField(ri, StatusWord(rdata, ri))]
                        ELSE status
           /\ rlog' = Append(rlog, [addr |-> StatusRegs[ri], ok |-> ok])
           /\ IF ReaderGoesOn(ri)
              THEN /\ ri' = ri + 1
                   /\ UNCHANGED <<rpc, rwarned>>
              ELSE ReaderEnd(r)
    /\ UNCHANGED <<rfail, rdata, stats, rprev, nruns>>
    /\ UNCHANGED otherThanRead

(***************************************************************************)
(* The MoCA GUID: mxl371x_set_default_guid, moca_guid_show and             *)
(* moca_guid_store, one 32-bit access per step.  The device keeps the two  *)
(* registers: a write that succeeds replaces the register, a write that    *)
(* fails leaves it, a read that succeeds delivers it.                      *)
(***************************************************************************)
ZeroMac == <<0, 0, 0, 0, 0, 0>>

\* the resolver has not consulted its sources in this call
NoOffer == [dt |-> <<>>, nd |-> <<>>, mac |-> ZeroMac]

\* mac_hi = (mac[0] << 24) | (mac[1] << 16) | (mac[2] << 8) | mac[3]
MacHi(a) == [hi |-> a[1] * 256 + a[2], lo |-> a[3] * 256 + a[4]]

\* mac_lo = (mac[4] << 24) | (mac[5] << 16)
MacLo(a) == [hi |-> a[5] * 256 + a[6], lo |-> 0]

\* mac[0] = (mac_hi >> 24) & 0xff; ... mac[5] = (mac_lo >> 16) & 0xff
MacOfRegs(h, l) ==
    << h.hi \div 256, h.hi % 256, h.lo \div 256, h.lo % 256,
       l.hi \div 256, l.hi % 256 >>

is_zero_ether_addr(a) == a = ZeroMac

\* a resolver that takes the netdev address as it is
C25_HostMacCopied(a) == a

\* mac[0] |= 0x02; mac[5] ^= 0x01
DeriveFromNetdev(a) ==
    [a EXCEPT ![1] = Or16(a[1], 2, 8),
              ![6] = IF a[6] % 2 = 1 THEN a[6] - 1 ELSE a[6] + 1]

\* mac[0] = 0x02; mac[1] = 0x24; mac[2] = 0x3e; get_random_bytes(&mac[3], 3)
Generated(rnd) == <<\H02, \H24, \H3e, rnd[1], rnd[2], rnd[3]>>

\* what the boot firmware may have left in the two registers
PresetGuids ==
    { [hi |-> U32Of(0), lo |-> [hi |-> \H1234, lo |-> 0]],
      [hi |-> [hi |-> \H0224, lo |-> \H3e77], lo |-> Zero32],
      [hi |-> [hi |-> \H0224, lo |-> \H3e77], lo |-> [hi |-> \H8899, lo |-> 0]] }

\* the device tree: no of_node or no address in it (<<>>), or an address
DtMacs == { <<>>, <<\H00, \H1a, \H2b, \H3c, \H00, \H00>> }

\* phydev->attached_dev: none (<<>>), or its dev_addr
NetdevAddrs == { <<>>, ZeroMac, <<\H00, \H11, \H22, \H33, \H44, \H55>> }

\* what get_random_bytes delivers
RandomBytes == { <<\H5a, 0, 0>>, <<\Ha1, \Hb2, \Hc3>> }

\* what mac_pton makes of the buffer written to moca_guid: nothing (<<>>),
\* or an address
StoreMacs ==
    { <<>>, ZeroMac, <<0, 0, 0, 0, 0, 1>>,
      <<\H02, \H11, \H22, \H33, \H44, \H54>> }

GuidInit ==
    /\ reg_hi = Zero32
    /\ reg_lo = Zero32
    /\ gpc = "boot"
    /\ mac = ZeroMac
    /\ mac_hi = Zero32
    /\ mac_lo = Zero32
    /\ gret = 0
    /\ gsrc = "none"
    /\ resolved = FALSE
    /\ asked = {}
    /\ rng_calls = 0
    /\ glog = <<>>
    /\ entry_hi = Zero32
    /\ entry_lo = Zero32
    /\ shown = ZeroMac
    /\ nstores = 0
    /\ nresolve = 0
    /\ offer = NoOffer

\* before the driver binds, the boot firmware programs a GUID
BootPreset ==
    /\ gpc = "boot"
    /\ reg_hi = Zero32 /\ reg_lo = Zero32
    /\ \E g \in PresetGuids :
          /\ reg_hi' = g.hi
          /\ reg_lo' = g.lo
    /\ UNCHANGED <<gpc, mac, mac_hi, mac_lo, gret, gsrc, resolved, asked,
                   rng_calls, glog, entry_hi, entry_lo, shown, nstores,
                   nresolve, offer>>
    /\ UNCHANGED otherThanGuid

\* mxl371x_config_init calls mxl371x_set_default_guid
SetDefaultGuidEnter ==
    /\ gpc \in {"boot", "idle"}
    /\ nresolve < MaxResolve
    /\ gpc' = "read_hi"
    /\ nresolve' = nresolve + 1
    /\ offer' = NoOffer
    /\ entry_hi' = reg_hi
    /\ entry_lo' = reg_lo
    /\ asked' = {}
    /\ rng_calls' = 0
    /\ glog' = <<>>
    /\ gsrc' = "none"
    /\ UNCHANGED <<reg_hi, reg_lo, mac, mac_hi, mac_lo, gret, resolved, shown,
                   nstores>>
    /\ UNCHANGED otherThanGuid

\* the resolver returns r
GuidReturn(r) ==
    /\ gpc' = "idle"
    /\ gret' = r
    /\ resolved' = (resolved \/ r = 0)

\* whether step 1 goes on to read MOCA_MAC_ADDR_LO
ReadsLowRegister(r, hi) == r = 0 /\ hi # Zero32

\* ret = mxl371x_read_mem32(phydev, MOCA_MAC_ADDR_HI, &mac_hi);
\* if (ret == 0 && mac_hi != 0)
GuidReadHi ==
    /\ gpc = "read_hi"
    /\ \E r \in {0} \cup BusErrnos :
          /\ mac_hi' = IF r = 0 THEN reg_hi ELSE mac_hi
          /\ glog' = Append(glog, [op |-> "read",
                                   addr |-> U32Of(MOCA_MAC_ADDR_HI),
                                   val |-> reg_hi, ok |-> r = 0])
          /\ gpc' = IF ReadsLowRegister(r, IF r = 0 THEN reg_hi ELSE mac_hi)
                    THEN "read_lo" ELSE "source"
    /\ UNCHANGED <<reg_hi, reg_lo, mac, mac_lo, gret, gsrc, resolved, asked,
                   rng_calls, entry_hi, entry_lo, shown, nstores, nresolve, offer>>
    /\ UNCHANGED otherThanGuid

\* ret = mxl371x_read_mem32(phydev, MOCA_MAC_ADDR_LO, &mac_lo);
\* if (ret == 0 && (mac_hi != 0 || mac_lo != 0)) return 0;
GuidReadLo ==
    /\ gpc = "read_lo"
    /\ \E r \in {0} \cup BusErrnos :
          /\ glog' = Append(glog, [op |-> "read",
                                   addr |-> U32Of(MOCA_MAC_ADDR_LO),
                                   val |-> reg_lo, ok |-> r = 0])
          /\ IF r = 0 /\ (mac_hi # Zero32 \/ reg_lo # Zero32)
                THEN /\ mac_lo' = reg_lo
                  /\ mac' = MacOfRegs(mac_hi, reg_lo)
                  /\ gsrc' = "hardware"
                  /\ GuidReturn(0)
             ELSE /\ mac_lo' = IF r = 0 THEN reg_lo ELSE mac_lo
                  /\ gpc' = "source"
                  /\ UNCHANGED <<mac, gsrc, gret, resolved>>
    /\ UNCHANGED <<reg_hi, reg_lo, mac_hi, asked, rng_calls, entry_hi,
                   entry_lo, shown, nstores, nresolve, offer>>
    /\ UNCHANGED otherThanGuid

\* steps 2 to 4: the device tree, the attached netdev, the generator;
\* get_random_bytes is called in step 4 only
GuidPickSource ==
    /\ gpc = "source"
    /\ \E dt \in DtMacs, nd \in NetdevAddrs :
          /\ IF dt # <<>>
             THEN /\ mac' = dt
                  /\ gsrc' = "devicetree"
                  /\ asked' = {"devicetree"}
                  /\ UNCHANGED rng_calls
             ELSE IF nd # <<>> /\ ~is_zero_ether_addr(nd)
             THEN /\ mac' = DeriveFromNetdev(nd)
                  /\ gsrc' = "netdev"
                  /\ asked' = {"devicetree", "netdev"}
                  /\ UNCHANGED rng_calls
             ELSE /\ \E rnd \in RandomBytes : mac' = Generated(rnd)
                  /\ gsrc' = "random"
                  /\ asked' = {"devicetree", "netdev"}
                  /\ rng_calls' = rng_calls + 1
          /\ offer' = [dt |-> dt, nd |-> nd, mac |-> mac']
    /\ gpc' = "write_hi"
    /\ UNCHANGED <<reg_hi, reg_lo, mac_hi, mac_lo, gret, resolved, glog,
                   entry_hi, entry_lo, shown, nstores, nresolve>>
    /\ UNCHANGED otherThanGuid

\* set_guid: ret = mxl371x_write_mem32(phydev, MOCA_MAC_ADDR_HI, mac_hi);
\* if (ret < 0) return ret;
GuidWriteHi ==
    /\ gpc = "write_hi"
    /\ mac_hi' = MacHi(mac)
    /\ mac_lo' = MacLo(mac)
    /\ \E r \in {0} \cup BusErrnos :
          /\ glog' = Append(glog, [op |-> "write",
                                   addr |-> U32Of(MOCA_MAC_ADDR_HI),
                                   val |-> MacHi(mac), ok |-> r = 0])
          /\ IF r = 0
             THEN /\ reg_hi' = MacHi(mac)
                  /\ gpc' = "write_lo"
                  /\ UNCHANGED <<gret, resolved>>
             ELSE /\ GuidReturn(r)
                  /\ UNCHANGED reg_hi
    /\ UNCHANGED <<reg_lo, mac, gsrc, asked, rng_calls, entry_hi, entry_lo,
                   shown, nstores, nresolve, offer>>
    /\ UNCHANGED otherThanGuid

\* ret = mxl371x_write_mem32(phydev, MOCA_MAC_ADDR_LO, mac_lo);
\* if (ret < 0) return ret; return 0;
GuidWriteLo ==
    /\ gpc = "write_lo"
    /\ \E r \in {0} \cup BusErrnos :
          /\ glog' = Append(glog, [op |-> "write",
                                   addr |-> U32Of(MOCA_MAC_ADDR_LO),
                                   val |-> mac_lo, ok |-> r = 0])
          /\ reg_lo' = IF r = 0 THEN mac_lo ELSE reg_lo
          /\ GuidReturn(r)
    /\ UNCHANGED <<reg_hi, mac, mac_hi, mac_lo, gsrc, asked, rng_calls,
                   entry_hi, entry_lo, shown, nstores, nresolve, offer>>
    /\ UNCHANGED otherThanGuid

\* a sysfs function returns r
SysfsReturn(r) ==
    /\ gpc' = "idle"
    /\ gret' = r

\* how the two reads of moca_guid_show end
ShowOutcomes == {"ok", "hi_failed", "lo_failed"}

\* moca_guid_show
moca_guid_show ==
    /\ gpc = "idle"
    /\ nresolve > 0
    /\ \E o \in ShowOutcomes :
          IF o # "ok"
          THEN /\ SysfsReturn(-EIO)
               /\ UNCHANGED shown
          ELSE /\ SysfsReturn(0)
               /\ shown' = MacOfRegs(reg_hi, reg_lo)
    /\ UNCHANGED <<reg_hi, reg_lo, mac, mac_hi, mac_lo, gsrc, resolved, asked,
                   rng_calls, glog, entry_hi, entry_lo, nstores, nresolve, offer>>
    /\ UNCHANGED otherThanGuid

\* moca_guid_store up to its first register write
moca_guid_store ==
    /\ gpc = "idle"
    /\ nresolve > 0
    /\ nstores < MaxStores
    /\ nstores' = nstores + 1
    /\ \E a \in StoreMacs :
          IF a = <<>>
          THEN /\ SysfsReturn(-EINVAL)
               /\ UNCHANGED <<mac, mac_hi, mac_lo>>
          ELSE IF is_zero_ether_addr(a)
          THEN /\ SysfsReturn(-EADDRNOTAVAIL)
               /\ mac' = a
               /\ UNCHANGED <<mac_hi, mac_lo>>
          ELSE /\ mac' = a
               /\ mac_hi' = MacHi(a)
               /\ mac_lo' = MacLo(a)
               /\ gpc' = "store_hi"
               /\ UNCHANGED gret
    /\ UNCHANGED <<reg_hi, reg_lo, gsrc, resolved, asked, rng_calls, glog,
                   entry_hi, entry_lo, shown, nresolve, offer>>
    /\ UNCHANGED otherThanGuid

\* if (mxl371x_write_mem32(phydev, MOCA_MAC_ADDR_HI, mac_hi) < 0) return -EIO;
StoreWriteHi ==
    /\ gpc = "store_hi"
    /\ \E ok \in BOOLEAN :
          IF ok
          THEN /\ reg_hi' = mac_hi
               /\ gpc' = "store_lo"
               /\ UNCHANGED gret
          ELSE /\ SysfsReturn(-EIO)
               /\ UNCHANGED reg_hi
    /\ UNCHANGED <<reg_lo, mac, mac_hi, mac_lo, gsrc, resolved, asked,
                   rng_calls, glog, entry_hi, entry_lo, shown, nstores,
                   nresolve, offer>>
    /\ UNCHANGED otherThanGuid

\* if (mxl371x_write_mem32(phydev, MOCA_MAC_ADDR_LO, mac_lo) < 0) return -EIO;
\* return count;
StoreWriteLo ==
    /\ gpc = "store_lo"
    /\ \E ok \in BOOLEAN :
          /\ reg_lo' = IF ok THEN mac_lo ELSE reg_lo
          /\ SysfsReturn(IF ok THEN 0 ELSE -EIO)
    /\ UNCHANGED <<reg_hi, mac, mac_hi, mac_lo, gsrc, resolved, asked,
                   rng_calls, glog, entry_hi, entry_lo, shown, nstores,
                   nresolve, offer>>
    /\ UNCHANGED otherThanGuid

(***************************************************************************)
(* The specifications.                                                     *)
(***************************************************************************)
Init == BusInit /\ LoaderInit /\ LifeInit /\ TempInit /\ ReadInit /\ GuidInit

NextGuid ==
    \/ BootPreset
    \/ SetDefaultGuidEnter
    \/ GuidReadHi
    \/ GuidReadLo
    \/ GuidPickSource
    \/ GuidWriteHi
    \/ GuidWriteLo
    \/ moca_guid_show
    \/ moca_guid_store
    \/ StoreWriteHi
    \/ StoreWriteLo

SpecGuid == Init /\ [][NextGuid]_vars

NextReaders ==
    \/ UpdateStatsEnter
    \/ UpdateStatsRead
    \/ ReadMocaStatusEnter
    \/ ReadMocaStatusRead

SpecReaders == Init /\ [][NextReaders]_vars

NextTemp ==
    \/ mxl371x_hwmon_read
    \/ mxl371x_read_temp_raw
    \/ HwmonCalc

SpecTemp == Init /\ [][NextTemp]_vars

NextTransport ==
    \/ mxl371x_read_mem32("caller")
    \/ mxl371x_write_mem32("caller")
    \/ mxl371x_read_mem64("caller")
    \/ XferOk("caller")
    \/ XferFail("caller")

SpecTransport == Init /\ [][NextTransport]_vars

NextBus ==
    \/ \E c \in Ctx : mxl371x_read_mem32(c)
    \/ mxl371x_write_mem32("caller")
    \/ \E c \in Ctx : mxl371x_read_mem64(c)
    \/ \E c \in Ctx : XferOk(c)
    \/ \E c \in Ctx : XferFail(c)

SpecBus == Init /\ [][NextBus]_vars

NextLoader ==
    \/ LoadEnter
    \/ LoadCheckRunning
    \/ LoadRequest
    \/ LoadReset
    \/ LoadUpload
    \/ LoadRelease
    \/ LoadPoll

SpecLoader == Init /\ [][NextLoader]_vars

\* the steps of a call of mxl371x_load_firmware under way.  The function is
\* straight-line code and two counted loops; every bus access, sleep and
\* request_firmware call in it returns, so the thread that runs it takes
\* its next step
LoaderStep ==
    \/ LoadCheckRunning
    \/ LoadRequest
    \/ LoadReset
    \/ LoadUpload
    \/ LoadRelease
    \/ LoadPoll

SpecLoaderFair == Init /\ [][NextLoader]_vars /\ WF_vars(LoaderStep)

Next ==
    \/ mxl371x_probe
    \/ Attach
    \/ Detach
    \/ mxl371x_config_init
    \/ TimerFire
    \/ StaleTimerFire
    \/ TickStart
    \/ TickBody
    \/ TickStats
    \/ TickStatus
    \/ TickResched
    \/ mxl371x_read_status
    \/ mxl371x_suspend_enter
    \/ mxl371x_suspend_grab
    \/ mxl371x_suspend
    \/ mxl371x_remove_enter
    \/ mxl371x_remove_grab
    \/ mxl371x_remove
    \/ mxl371x_resume

Spec == Init /\ [][Next]_vars


(***************************************************************************)
(* Properties of the bus discipline (SpecBus).                             *)
(***************************************************************************)
\* context c is inside a logical operation: it has issued at least one of
\* its 16-bit transfers and has not returned
MidOperation(c) == cop[c].kind # "none" /\ clog[c] # <<>>

\* C1: on one device the 16-bit transfers of two logical operations never
\* interleave: while one context is between the first and the last transfer
\* of its operation, no other context has a transfer of its own on the bus.
C1_NoInterleaving ==
    \A c \in Ctx, d \in Ctx : c # d => ~(MidOperation(c) /\ MidOperation(d))

(***************************************************************************)
(* Properties of the poll work and the callbacks (Spec).                   *)
(***************************************************************************)
\* C2: once the cancel of suspend or remove has returned, and until a resume
\* or a new config_init schedules the work again, no tick of the poll work
\* is running, queued or on a timer (so the poll work starts no further bus
\* operation).
C2_QuietAfterCancel ==
    cancelled =>
        /\ tick_pc = "idle"
        /\ ~stats_poll.queued
        /\ ~stats_poll.armed

(***************************************************************************)
(* Properties of mxl371x_load_firmware (SpecLoader).                       *)
(***************************************************************************)
\* C3: a call of the loader that finds the firmware already loaded returns
\* success at once, leaves fw_loaded set and issues no bus write at all:
\* no reset, upload or release write, no status read (hence no
\* address-register write) and no wait.
C3_LoadedIsNoOp ==
    entry_loaded =>
        /\ lpc = "returned"
        /\ ret = 0
        /\ fw_loaded
        /\ busWrites = 0
        /\ wlog = <<>>
        /\ polls = 0
        /\ clock = 0

\* a second call of the loader, made with the firmware loaded, has returned
C3_Witness == entry_loaded /\ lpc = "returned" /\ ncalls = 2

\* C4: in the ready loop, when the status register first shows the running
\* bit on poll k, the loader returns success after exactly k status reads
\* (k <= 50) with the firmware loaded; when no poll fails and none shows the
\* running or the error bit, the loop goes on up to exactly 50 reads and
\* then the loader returns -ETIMEDOUT with the firmware not loaded.
C4_ReadyPoll ==
    /\ polls <= 50
    /\ firstRun > 0 =>
          /\ lpc = "returned"
          /\ msg = "started"
          /\ ret = 0
          /\ fw_loaded
          /\ polls = firstRun
    /\ (polls > 0 /\ firstRun = 0 /\ firstErr = 0
            /\ msg # "status_read_failed") =>
          IF polls < 50
          THEN lpc = "poll" /\ ~fw_loaded
          ELSE /\ lpc = "returned"
               /\ msg = "timeout"
               /\ ret = -110
               /\ ~fw_loaded

\* the running bit came up on the third poll
C4_Witness ==
    lpc = "returned" /\ firstRun = 3 /\ polls = 3 /\ ret = 0 /\ fw_loaded

\* the milliseconds a call has slept when its k-th status read of the ready
\* loop returns: the reset hold, the wait after release, and one interval
\* before every poll but the first
SleptAtPoll(k) == 100 + 500 + 100 * (k - 1)

\* C5: the first poll that shows the error bit without the running bit ends
\* the call at once with -EIO: it is the last status read, no wait follows
\* it, and the firmware is not loaded.
C5_FaultIsImmediate ==
    (firstErr > 0 /\ firstRun = 0) =>
        /\ lpc = "returned"
        /\ msg = "fw_error"
        /\ ret = -5
        /\ polls = firstErr
        /\ clock = SleptAtPoll(firstErr)
        /\ ~fw_loaded

\* the error bit came up on the second poll
C5_Witness == msg = "fw_error" /\ lpc = "returned" /\ polls = 2

\* byte k (from 0) of image f, zero beyond its end
ImageByte(f, k) == IF k < f.size THEN f.data[k + 1] ELSE 0

\* bytes 4i .. 4i+3 of image f as a little-endian word
ExpectedWord(f, i) ==
    [hi |-> ImageByte(f, 4 * i + 2) + 256 * ImageByte(f, 4 * i + 3),
     lo |-> ImageByte(f, 4 * i) + 256 * ImageByte(f, 4 * i + 1)]

\* the write_mem32 calls of the upload loop, in order
UploadWrites == SelectSeq(wlog, LAMBDA e : e.step = "upload")

\* the upload loop has run to its end without a failed write
UploadComplete ==
    \/ lpc \in {"release", "poll"}
    \/ /\ lpc = "returned"
       /\ msg \in {"release_failed", "status_read_failed", "started",
                   "fw_error", "timeout"}

\* C6: the i-th write of the upload loop (from 0) goes to base + 4i and
\* carries bytes 4i .. 4i+3 of the image packed little-endian, bytes beyond
\* the end of the image being zero; an upload of n bytes that meets no bus
\* failure is exactly ceil(n/4) such writes.
C6_UploadChunking ==
    /\ \A j \in 1 .. Len(UploadWrites) :
          /\ UploadWrites[j].addr = [hi |-> 0, lo |-> 4 * (j - 1)]
          /\ UploadWrites[j].val = ExpectedWord(fw, j - 1)
    /\ UploadComplete =>
          /\ fw.size >= 1
          /\ Len(UploadWrites) = (fw.size + 3) \div 4
          /\ \A j \in 1 .. Len(UploadWrites) : UploadWrites[j].ret = 0

\* six bytes 01 02 03 04 05 06 went out as two words, the second 0x00000605
C6_Witness ==
    /\ lpc = "release"
    /\ fw.size = 6
    /\ Len(UploadWrites) = 2
    /\ UploadWrites[1].val = [hi |-> \H0403, lo |-> \H0201]
    /\ UploadWrites[2].val = [hi |-> 0, lo |-> \H0605]

\* the image the call was given is empty or larger than 4 MiB
BadImage == fw # NoFw /\ (fw.size = 0 \/ fw.size > 4194304)

\* C7 as stated: an empty or oversized image is rejected with -EINVAL
\* before any bus write of any kind.
C7_NoBusWriteBeforeReject ==
    BadImage =>
        /\ lpc = "returned"
        /\ msg = "invalid_size"
        /\ ret = -22
        /\ busWrites = 0
        /\ ~fw_loaded

\* C7 amended: an empty or oversized image is rejected with -EINVAL before
\* any 32-bit write (no reset, upload or release write) and before any
\* wait; the only bus writes of the call are the address-register writes
\* (at most two) of the status read made before the image is requested;
\* the firmware is not loaded.
C7_RejectBeforeDeviceWrite ==
    BadImage =>
        /\ lpc = "returned"
        /\ msg = "invalid_size"
        /\ ret = -22
        /\ wlog = <<>>
        /\ busWrites \in 1 .. 2
        /\ polls = 0
        /\ clock = 0
        /\ ~fw_loaded

\* an oversized image was rejected after a complete status read
C7_Witness ==
    /\ lpc = "returned"
    /\ msg = "invalid_size"
    /\ fw.size > 4194304
    /\ busWrites = 2

\* C8: a failed write of the upload loop is the last write of the call: the
\* loader returns its error with the firmware not loaded, no word at a
\* higher offset is written, the release write and the ready polls are not
\* made, and the last write to the CPU control register is the reset.
C8_UploadAbort ==
    \A j \in 1 .. Len(wlog) :
        (wlog[j].step = "upload" /\ wlog[j].ret < 0) =>
            /\ j = Len(wlog)
            /\ lpc = "returned"
            /\ msg = "write_failed"
            /\ ret = wlog[j].ret
            /\ li = wlog[j].addr.lo
            /\ ~fw_loaded
            /\ polls = 0
            /\ \A k \in 1 .. Len(wlog) :
                  /\ wlog[k].step # "release"
                  /\ wlog[k].step = "upload" => wlog[k].addr.lo <= li
            /\ wlog[1] = [step |-> "reset", addr |-> [hi |-> \H0820, lo |-> \H0010],
                          val |-> [hi |-> 0, lo |-> 8], ret |-> 0]

\* the write of the first word of a six-byte image failed
C8_Witness ==
    /\ lpc = "returned"
    /\ msg = "write_failed"
    /\ fw.size = 6
    /\ li = 0
    /\ Len(wlog) = 2

(***************************************************************************)
(* Properties of the 32-bit and 64-bit accessors on the fake bus, one       *)
(* caller at a time (SpecTransport).                                       *)
(***************************************************************************)
\* memories m and n hold the same word everywhere but at address a
SameButAt(m, n, a) ==
    \A x \in (DOMAIN m) \cup (DOMAIN n) :
        x # a => MemRead(m, x) = MemRead(n, x)

\* C9: write32(A, v) followed at once by read32(A), both without bus
\* failure, reads back v, and the write changed no memory location other
\* than A.
C9_RoundTrip ==
    LET w == cprev["caller"]
        r == clast["caller"]
    IN  (w.kind = "write32" /\ w.ret = 0 /\ r.kind = "read32" /\ r.ret = 0
            /\ r.addr = w.addr) =>
            /\ r.out32 = w.val
            /\ SameButAt(w.mem0, w.mem1, w.addr)

\* a + 4 in 32 bits
Plus4(a) ==
    IF a.lo + 4 < 65536
    THEN [hi |-> a.hi, lo |-> a.lo + 4]
    ELSE [hi |-> (a.hi + 1) % 65536, lo |-> a.lo + 4 - 65536]

\* C10: read64(A) makes the 32-bit read of A and then the 32-bit read of
\* A + 4 and delivers (word read at A + 4) << 32 | (word read at A), which
\* with memory unchanged is (mem[A + 4] << 32) | mem[A]; if a transfer of
\* either read fails it returns the error at once and delivers no value.
C10_Read64 ==
    LET r == clast["caller"]
        A == r.addr
        n == Len(r.log)
    IN  r.kind = "read64" =>
            IF r.ret = 0
            THEN /\ n = 8
                 /\ \A k \in 1 .. 8 : r.log[k].ok
                 /\ <<r.log[1].dir, r.log[1].val>> = <<"write", A.hi>>
                 /\ <<r.log[2].dir, r.log[2].val>> = <<"write", A.lo>>
                 /\ <<r.log[5].dir, r.log[5].val>> = <<"write", Plus4(A).hi>>
                 /\ <<r.log[6].dir, r.log[6].val>> = <<"write", Plus4(A).lo>>
                 /\ \A k \in {3, 4, 7, 8} : r.log[k].dir = "read"
                 /\ r.out64.lo = [hi |-> r.log[3].val, lo |-> r.log[4].val]
                 /\ r.out64.hi = [hi |-> r.log[7].val, lo |-> r.log[8].val]
                 /\ r.out64 = [hi |-> MemRead(r.mem0, Plus4(A)),
                               lo |-> MemRead(r.mem0, A)]
                 /\ r.mem1 = r.mem0
            ELSE /\ r.ret < 0
                 /\ n \in 1 .. 8
                 /\ ~r.log[n].ok
                 /\ \A k \in 1 .. n - 1 : r.log[k].ok
                 /\ r.out64 = r.old64

\* read64 of the last word of the address space returned: its high word
\* came from address 0 and differs from its low word
C10_Witness ==
    LET r == clast["caller"]
    IN  /\ r.kind = "read64"
        /\ r.ret = 0
        /\ r.addr = [hi |-> 65535, lo |-> 65532]
        /\ r.out64.hi = MemRead(r.mem0, Zero32)
        /\ r.out64.hi # r.out64.lo

(***************************************************************************)
(* Properties of the temperature read (SpecTemp).                          *)
(***************************************************************************)
\* an int as [hi, lo], hi * 2^16 + lo
WideOf(n) == [hi |-> n \div 65536, lo |-> n % 65536]

\* (b - a) * 1338680 / 524288 - 277770 for a <= b, as [hi, lo], worked out
\* without any intermediate above 2^31: with d = b - a = dh * 2^16 + dl and
\* 1338680 / 524288 = (2 * 65536 + 2 * 18131 + 1) / 65536,
\*   d * 1338680 / 524288
\*     = 2 * d + 2 * dh * 18131 + dh + (dl * 18131 + dl / 2) / 32768
ExactTemp(a, b) ==
    LET bw == IF b.lo < a.lo THEN 1 ELSE 0
        dl == b.lo - a.lo + bw * 65536
        dh == b.hi - a.hi - bw
        k  == dh * 18131
        r  == (dl * 18131 + dl \div 2) \div 32768
        lo == 2 * dl + 2 * (k % 65536) + dh + r - 15626
        hi == 2 * dh + 2 * (k \div 65536) - 4
    IN  [hi |-> hi + lo \div 65536, lo |-> lo % 65536]

\* C11: for all samples t0 <= t1 the temperature calculation returns exactly
\* (t1 - t0) * 1338680 / 524288 - 277770, with no overflow or truncation.
C11_CalcExact ==
    (tpc = "calc" /\ ~Less32(t1, t0)) =>
        WideOf(mxl371x_calc_temp(t0, t1)) = ExactTemp(t0, t1)

\* every access of the sampling sequence was issued and succeeded
AllTransfersOk ==
    /\ Len(tlog) = 10
    /\ \A k \in 1 .. 10 : tlog[k].ret = 0

\* C12: a temperature read whose bus transfers all succeeded fails with
\* -EINVAL if and only if t1 < t0: a pair with t1 >= t0 yields a reading and
\* no error, a pair with t1 < t0 yields -EINVAL and no reading.
C12_InvalidIffDecreasing ==
    (tpc = "returned" /\ AllTransfersOk) =>
        IF Less32(t1, t0)
        THEN hret = -22 /\ ~hstored
        ELSE hret = 0 /\ hstored


(***************************************************************************)
(* Properties of the two readers (SpecReaders).                            *)
(***************************************************************************)
\* the reader of the run that ended last
LastReader ==
    IF rlog # <<>> /\ rlog[1].addr = StatsRegs[1] THEN "stats" ELSE "status"

RunEnded == rpc = "idle" /\ nruns > 0

\* the value a successful i-th read of the status reader leaves in its field:
\* 3 bits of link status, 16 bits of phy rate, 8 bits of version, node ids
\* and network state, all of LoF and of the active nodes, one security bit
MaskedStatus(i, w) ==
    CASE i = 1 -> [hi |-> 0, lo |-> w.lo % 8]
      [] i = 2 -> [hi |-> 0, lo |-> w.lo]
      [] i \in {3, 4, 5, 7} -> [hi |-> 0, lo |-> w.lo % 256]
      [] i \in {6, 8} -> w
      [] i = 9 -> w.lo % 2 = 1

\* the value a successful i-th read of the statistics reader leaves
Counter(d, i) == [hi |-> StatsHigh(d, i), lo |-> StatsLow(d, i)]

\* C13: in one run of the status reader or of the statistics reader all nine
\* reads are attempted, in order, whatever the earlier ones gave; a field
\* whose read succeeded holds the new (masked) value and a field whose read
\* failed holds the value it had when the run started; the run ended with
\* the failure warning exactly if one of its reads failed.
C13_BestEffort ==
    RunEnded =>
        /\ Len(rlog) = 9
        /\ \A i \in 1 .. 9 :
              IF LastReader = "stats"
              THEN /\ rlog[i].addr = StatsRegs[i]
                   /\ stats[i] = IF rlog[i].ok THEN Counter(rdata, i)
                                 ELSE rprev[i]
              ELSE /\ rlog[i].addr = StatusRegs[i]
                   /\ status[i] = IF rlog[i].ok
                                  THEN MaskedStatus(i, StatusWord(rdata, i))
                                  ELSE rprev[i]
        /\ rwarned <=> (\E i \in 1 .. 9 : ~rlog[i].ok)

\* a run of the status reader ended in which a failed read left a field
\* with an earlier run's value and a successful read changed another field
C13_Witness ==
    /\ RunEnded
    /\ LastReader = "status"
    /\ \E i \in 1 .. 9 : ~rlog[i].ok /\ status[i] # StatusInit[i]
    /\ \E j \in 1 .. 9 : rlog[j].ok /\ status[j] # rprev[j]
    /\ \E k \in 2 .. 9 : ~rlog[k - 1].ok /\ rlog[k].ok

(***************************************************************************)
(* Properties of the MoCA GUID (SpecGuid).                                 *)
(***************************************************************************)
ReadsAllOk == \A k \in 1 .. Len(glog) : glog[k].op = "read" => glog[k].ok

\* C14: when one of the two GUID registers is non-zero as the resolver
\* starts (and its reads succeed), the resolver keeps the value: it writes
\* neither register, consults neither the device tree nor the netdev, and
\* does not call the random generator.
C14_KeepsExisting ==
    (nresolve > 0 /\ ReadsAllOk /\ (entry_hi # Zero32 \/ entry_lo # Zero32)) =>
        /\ \A k \in 1 .. Len(glog) : glog[k].op = "read"
        /\ asked = {}
        /\ rng_calls = 0

\* C15: once the resolver has returned success, the six bytes held in the
\* two GUID registers are never all zero, whatever identity writes
\* (accepted, rejected, or cut short by a bus failure) and reads follow;
\* stated on the states in which no identity write is under way.
C15_GuidNeverZero ==
    (resolved /\ gpc = "idle") => MacOfRegs(reg_hi, reg_lo) # ZeroMac

TicksScheduled ==
    (IF stats_poll.armed THEN 1 ELSE 0) + (IF stats_poll.queued THEN 1 ELSE 0)
    + stats_poll.stale

\* C17: while the poller is started and no cancel has been requested
\* (config_init has set the work up, no suspend or remove is under way or
\* has returned since), and no tick is running, exactly one next tick is
\* scheduled: after init, after resume, and after every tick.
C17_OneTickScheduled ==
    (/\ phase = "bound" /\ cb = "none" /\ ~cancelled
     /\ stats_poll.init /\ tick_pc = "idle") =>
        TicksScheduled = 1

\* a call of mxl371x_config_init
InitCall == ninit' = ninit + 1

\* C18: a call of mxl371x_config_init in which get_device_info or
\* load_firmware fails returns that failure, resolves no GUID, reads no
\* status and leaves the poll work alone; a call in which only
\* set_default_guid fails goes on to the status read and to the start of
\* the poll work and, when it returns, returns 0 with the work scheduled.
C18_InitFailures ==
    [][InitCall =>
        /\ (init_failed' \cap {"get_device_info", "load_firmware"} # {}) =>
              /\ init_ret' = IF "get_device_info" \in init_failed'
                             THEN -EIO ELSE -ETIMEDOUT
              /\ \A k \in 1 .. Len(init_log') :
                    init_log'[k] \notin {"set_default_guid",
                                         "read_moca_status", "stats_poll"}
              /\ UNCHANGED <<stats_poll, reader_start, sysfs_group, phase>>
        /\ (init_failed' = {"set_default_guid"}) =>
              /\ init_log' = InitSteps
              /\ reader_start' = [by |-> "init", reader |-> "status",
                                  loaded |-> TRUE]
              /\ phase' = "bound" =>
                    /\ init_ret' = 0
                    /\ stats_poll'.init /\ stats_poll'.pending
    ]_vars

\* an init in which only the GUID could not be set has returned 0 and left
\* the poll work scheduled
C18_Witness ==
    /\ init_failed = {"set_default_guid"}
    /\ init_ret = 0
    /\ init_log = InitSteps
    /\ reader_start.by = "init"
    /\ stats_poll.pending /\ stats_poll.armed
    /\ phase = "bound"

\* C19: fw_loaded changes value only in the firmware loader (its running
\* check and its load sequence); no other function changes it.
C19_OnlyLoaderWrites ==
    fw_writer \in {"none", "check_firmware_running", "load_firmware"}

\* C20: every call of update_stats or read_moca_status - from config_init,
\* from a tick or from read_status - is made while fw_loaded is true.
C20_ReadersStartLoaded ==
    reader_start.by # "none" => reader_start.loaded

(***************************************************************************)
(* C21: mxl371x_read_mem32 and mxl371x_write_mem32 fail as soon as one of  *)
(* their four 16-bit transfers fails: the failed transfer is the last one  *)
(* issued (the transfers before it are the accessor's own, in order, each  *)
(* issued once), the accessor returns the negative error, and a failed     *)
(* read_mem32 leaves the caller's destination as it was.                   *)
(***************************************************************************)
Access32Kinds == {"read32", "write32"}

XfersOf(r) ==
    IF r.kind = "write32" THEN mxl371x_write_mem32_xfers(r.addr, r.val)
    ELSE mxl371x_read_mem32_xfers(r.addr)

HasFailedXfer(r) == \E k \in 1 .. Len(r.log) : ~r.log[k].ok

C21_FailFast ==
    \A c \in Ctx :
        LET r == clast[c]
        IN  r.kind \in Access32Kinds =>
               /\ Len(r.log) \in 1 .. 4
               /\ \A k \in 1 .. Len(r.log) :
                     /\ r.log[k].dir = XfersOf(r)[k].dir
                     /\ r.log[k].reg = XfersOf(r)[k].reg
                     /\ k < Len(r.log) => r.log[k].ok
               /\ HasFailedXfer(r) <=> r.ret \in BusErrnos
               /\ ~HasFailedXfer(r) <=> (r.ret = 0 /\ Len(r.log) = 4)
               /\ HasFailedXfer(r) =>
                     /\ r.out32 = r.old32
                     /\ dst32[c] = r.old32

\* a read_mem32 whose first data read failed after both address writes
\* went out, with a destination that held a value from an earlier read
C21_Witness ==
    \E c \in Ctx :
        /\ clast[c].kind = "read32"
        /\ Len(clast[c].log) = 3
        /\ ~clast[c].log[3].ok
        /\ clast[c].ret = -EIO
        /\ clast[c].old32 # Zero32
        /\ dst32[c] = clast[c].old32

\* a write_mem32 whose second address write failed: no data half went out
C21_WitnessWrite ==
    \E c \in Ctx :
        /\ clast[c].kind = "write32"
        /\ Len(clast[c].log) = 2
        /\ ~clast[c].log[2].ok
        /\ clast[c].ret = -ETIMEDOUT


(***************************************************************************)
(* C22: a cold-boot load runs its steps in one order.  The reset write is  *)
(* the first write of the call; a firmware word is written only after a    *)
(* successful reset write and its 100 ms hold, with nothing but firmware   *)
(* words in between and before the release write; the release write comes  *)
(* after the reset and the words; a ready-poll read is issued only after a *)
(* successful release write, which is then the last write, and its 500 ms  *)
(* wait.  Outside the warm-boot check fw_loaded is set only by the poll    *)
(* step whose read has just returned the running bit.                      *)
(***************************************************************************)
\* the step writes to the device as step s of the loader
Writes(s) ==
    /\ Len(wlog') = Len(wlog) + 1
    /\ wlog'[Len(wlog')].step = s

\* the step issues a ready-poll read
PollsStatus == polls' = polls + 1

\* the writes of this call so far are: one successful reset, then
\* successful firmware words only
ResetThenWords ==
    /\ Len(wlog) >= 1
    /\ wlog[1].step = "reset"
    /\ \A k \in 1 .. Len(wlog) :
          /\ wlog[k].ret = 0
          /\ k > 1 => wlog[k].step = "upload"

C22_StepOrder ==
    [][ /\ Writes("reset") => wlog = <<>> /\ polls = 0
        /\ Writes("upload") =>
              /\ ResetThenWords
              /\ polls = 0
              /\ clock >= RESET_HOLD_MS
        /\ Writes("release") =>
              /\ ResetThenWords
              /\ Len(wlog) >= 2
              /\ polls = 0
        /\ PollsStatus =>
              /\ Len(wlog) >= 3
              /\ wlog[Len(wlog)].step = "release"
              /\ wlog[Len(wlog)].ret = 0
              /\ wlog[1].step = "reset"
              /\ \A k \in 1 .. Len(wlog) : wlog[k].ret = 0
              /\ \A k \in 2 .. Len(wlog) - 1 : wlog[k].step = "upload"
              /\ wlog' = wlog
              /\ clock >= RESET_HOLD_MS + RELEASE_WAIT_MS
                          + polls * POLL_INTERVAL_MS
        /\ (~fw_loaded /\ fw_loaded' /\ lpc # "check") =>
              /\ lpc = "poll"
              /\ PollsStatus
              /\ firstRun' = polls'
              /\ msg' = "started"
      ]_vars

\* a cold-boot load that wrote two firmware words, released the device and
\* saw the running bit at its third poll
C22_Witness ==
    /\ lpc = "returned"
    /\ msg = "started"
    /\ fw_loaded
    /\ ~entry_loaded
    /\ Len(wlog) = 4
    /\ wlog[1].step = "reset"
    /\ wlog[2].step = "upload"
    /\ wlog[3].step = "upload"
    /\ wlog[4].step = "release"
    /\ polls = 3
    /\ firstRun = 3


(***************************************************************************)
(* C23: the warm-boot check.  When the status read of the check succeeded  *)
(* with the running bit set, the loader has returned 0 with fw_loaded set  *)
(* and has written nothing to the device.  When the read failed or the     *)
(* running bit was clear, with or without the error bit, the loader went   *)
(* on to request the image, and a call that got a valid image has the      *)
(* reset write as its first write.                                         *)
(***************************************************************************)
WarmBoot == chk.done /\ ~chk.failed /\ chk.running

Reload == chk.done /\ (chk.failed \/ ~chk.running)

ValidImage == fw # NoFw /\ ~FwSizeInvalid(fw.size)

C23_CheckRunning ==
    /\ WarmBoot =>
          /\ lpc = "returned"
          /\ fw_loaded
          /\ ret = 0
          /\ msg = "skipped"
          /\ wlog = <<>>
          /\ fw = NoFw
    /\ Reload =>
          /\ lpc \notin {"idle", "check"}
          /\ msg # "skipped"
          /\ (lpc = "returned" /\ wlog = <<>>) =>
                msg \in {"request_failed", "invalid_size"}
          /\ (ValidImage /\ lpc # "reset") =>
                /\ Len(wlog) >= 1
                /\ wlog[1].step = "reset"
                /\ wlog[1].addr = U32Of(SRE_CPU_SRC_SEL_CSR)
                /\ wlog[1].val = U32Of(SRE_CPU_RESET)

\* warm boot with the error bit set next to the running bit
C23_Witness == WarmBoot /\ chk.error /\ lpc = "returned" /\ fw_loaded

\* the check read failed, and the reload reset the device
C23_WitnessReload ==
    /\ chk.done /\ chk.failed
    /\ ValidImage
    /\ Len(wlog) >= 1

\* the check read the error bit without the running bit, and the reload
\* reset the device
C23_WitnessError ==
    /\ chk.done /\ ~chk.failed /\ chk.error /\ ~chk.running
    /\ ValidImage
    /\ Len(wlog) >= 1


(***************************************************************************)
(* C24: when an access of the temperature sampling sequence fails, it is   *)
(* the last access of that call: the accesses issued are a prefix of the   *)
(* sequence, the on-demand read has returned the error of the failed       *)
(* access and has stored no temperature, also when t0 was read before the  *)
(* failure.                                                                *)
(***************************************************************************)
TempFailedAt(k) == k \in 1 .. Len(tlog) /\ tlog[k].ret < 0

C24_SamplerAborts ==
    /\ Len(tlog) <= Len(TempSequence)
    /\ \A k \in 1 .. Len(tlog) :
          /\ tlog[k].op = TempSequence[k].op
          /\ tlog[k].addr = TempSequence[k].addr
          /\ tlog[k].val = TempSequence[k].val
          /\ TempFailedAt(k) =>
                /\ k = Len(tlog)
                /\ tpc = "returned"
                /\ hret = tlog[k].ret
                /\ hret \in BusErrnos
                /\ ~hstored
    /\ hstored =>
          /\ Len(tlog) = Len(TempSequence)
          /\ \A k \in 1 .. Len(tlog) : tlog[k].ret = 0

\* the second call fails at the access after the read of t0, after a first
\* call that delivered a temperature
C24_Witness ==
    /\ nreads = 2
    /\ tpc = "returned"
    /\ Len(tlog) = 6
    /\ tlog[5].ret = 0
    /\ TempFailedAt(6)
    /\ t0 # Zero32
    /\ hret = -EIO
    /\ ~hstored
    /\ hval # HwmonValInit


(***************************************************************************)
(* C25: when both GUID registers were zero at the start of the resolver    *)
(* and it has chosen a source, the choice is the first available of the    *)
(* device tree address, the address derived from the attached netdev and   *)
(* the generated address.  A device tree address is taken as it is, also   *)
(* when a netdev with an address is attached; the netdev address is taken  *)
(* only without a device tree address, with bit 1 of its first byte set    *)
(* and bit 0 of its last byte flipped; the generator is called only when   *)
(* neither is there.  The writes that follow carry bytes 0-3 in the high   *)
(* register and bytes 4-5 in the upper half of the low register, whose     *)
(* lower half is zero.                                                     *)
(***************************************************************************)
HasConfig == offer.dt # <<>>

HasPeer == offer.nd # <<>> /\ offer.nd # ZeroMac

Bit(v, b) == (v \div b) % 2

\* the resolver's last access wrote the low register
LowWritten ==
    /\ glog # <<>>
    /\ glog[Len(glog)].op = "write"
    /\ glog[Len(glog)].addr = U32Of(MOCA_MAC_ADDR_LO)
    /\ glog[Len(glog)].ok

C25_SourceOrder ==
    (entry_hi = Zero32 /\ entry_lo = Zero32 /\ offer # NoOffer) =>
        /\ HasConfig =>
              /\ gsrc = "devicetree"
              /\ offer.mac = offer.dt
              /\ rng_calls = 0
        /\ (~HasConfig /\ HasPeer) =>
              /\ gsrc = "netdev"
              /\ Bit(offer.mac[1], 2) = 1
              /\ offer.mac[1] \in {offer.nd[1], offer.nd[1] + 2}
              /\ \A k \in 2 .. 5 : offer.mac[k] = offer.nd[k]
              /\ Bit(offer.mac[6], 1) # Bit(offer.nd[6], 1)
              /\ offer.mac[6] \div 2 = offer.nd[6] \div 2
              /\ rng_calls = 0
        /\ (~HasConfig /\ ~HasPeer) =>
              /\ gsrc = "random"
              /\ rng_calls = 1
              /\ offer.mac[1] = \H02
              /\ offer.mac[2] = \H24
              /\ offer.mac[3] = \H3e
        /\ gsrc = "netdev" => ~HasConfig
        /\ rng_calls \in {0, 1}
        /\ \A k \in 1 .. Len(glog) :
              glog[k].op = "write" =>
                 IF glog[k].addr = U32Of(MOCA_MAC_ADDR_HI)
                 THEN /\ glog[k].val.hi = offer.mac[1] * 256 + offer.mac[2]
                      /\ glog[k].val.lo = offer.mac[3] * 256 + offer.mac[4]
                 ELSE /\ glog[k].addr = U32Of(MOCA_MAC_ADDR_LO)
                      /\ glog[k].val.hi = offer.mac[5] * 256 + offer.mac[6]
                      /\ glog[k].val.lo = 0
        /\ (nresolve = 1 /\ nstores = 0 /\ LowWritten) =>
              /\ reg_hi = [hi |-> offer.mac[1] * 256 + offer.mac[2],
                           lo |-> offer.mac[3] * 256 + offer.mac[4]]
              /\ reg_lo = [hi |-> offer.mac[5] * 256 + offer.mac[6], lo |-> 0]

\* the registers were zero, the device tree had no address, the attached
\* netdev had 00:11:22:33:44:55, and 02:11:22:33:44:54 was written
C25_Witness ==
    /\ entry_hi = Zero32 /\ entry_lo = Zero32
    /\ ~HasConfig /\ HasPeer
    /\ gpc = "idle" /\ gret = 0 /\ nstores = 0
    /\ Len(glog) = 3
    /\ LowWritten
    /\ reg_hi = [hi |-> \H0211, lo |-> \H2233]
    /\ reg_lo = [hi |-> \H4454, lo |-> 0]

\* a device tree address wins over an attached netdev with an address
C25_WitnessConfig ==
    /\ entry_hi = Zero32 /\ entry_lo = Zero32
    /\ HasConfig /\ HasPeer
    /\ gpc = "idle" /\ gret = 0 /\ nstores = 0
    /\ reg_hi = [hi |-> \H001a, lo |-> \H2b3c]

\* neither source: the generator is called
C25_WitnessGenerated ==
    /\ entry_hi = Zero32 /\ entry_lo = Zero32
    /\ offer # NoOffer /\ ~HasConfig /\ ~HasPeer
    /\ gpc = "idle" /\ gret = 0 /\ nstores = 0
    /\ rng_calls = 1
    /\ reg_hi = [hi |-> \H0224, lo |-> \H3ea1]


(***************************************************************************)
(* C26: every call of mxl371x_load_firmware returns, whatever the bus      *)
(* accesses and the status register deliver.  A call that has returned     *)
(* ended in exactly one way, and it issued at most ceil(size / 4) upload   *)
(* writes and at most 50 ready polls.                                      *)
(***************************************************************************)
LoaderRunning == lpc \notin {"idle", "returned"}

EndsLoaded == ret = 0 /\ fw_loaded /\ msg \in {"already_loaded", "skipped", "started"}

EndsInvalidFirmware == ret = -EINVAL /\ msg = "invalid_size"

EndsBusFailure ==
    /\ ret \in BusErrnos
    /\ msg \in {"reset_failed", "write_failed", "release_failed",
                "status_read_failed"}

EndsFirmwareFault == ret = -EIO /\ msg = "fw_error"

EndsTimeout == ret = -ETIMEDOUT /\ msg = "timeout"

\* request_firmware did not deliver an image
EndsNoImage == ret \in RequestErrnos /\ msg = "request_failed"

NumberTrue(S) == Cardinality({b \in S : b[2]})

UploadsIssued == Cardinality({k \in 1 .. Len(wlog) : wlog[k].step = "upload"})

LoaderBounds ==
    /\ polls <= 50
    /\ UploadsIssued <= (IF fw = NoFw THEN 0 ELSE (fw.size + 3) \div 4)
    /\ fw = NoFw => UploadsIssued = 0

\* the claim as it stands: five ways to end
C26_FiveEnds ==
    /\ [](/\ lpc = "returned" =>
                NumberTrue({<<1, EndsLoaded>>, <<2, EndsInvalidFirmware>>,
                            <<3, EndsBusFailure>>, <<4, EndsFirmwareFault>>,
                            <<5, EndsTimeout>>}) = 1
          /\ LoaderBounds)
    /\ (LoaderRunning ~> lpc = "returned")

\* with the failure of request_firmware as a sixth way to end
C26_Terminates ==
    /\ [](/\ lpc = "returned" =>
                NumberTrue({<<1, EndsLoaded>>, <<2, EndsInvalidFirmware>>,
                            <<3, EndsBusFailure>>, <<4, EndsFirmwareFault>>,
                            <<5, EndsTimeout>>, <<6, EndsNoImage>>}) = 1
          /\ LoaderBounds)
    /\ (LoaderRunning ~> lpc = "returned")

\* a load of a five-byte image that wrote its two words and timed out
\* after fifty polls
C26_Witness ==
    /\ lpc = "returned"
    /\ EndsTimeout
    /\ fw # NoFw /\ fw.size = 5
    /\ UploadsIssued = 2
    /\ polls = 50

\* a load that ended because request_firmware failed
C26_WitnessNoImage == lpc = "returned" /\ EndsNoImage /\ wlog = <<>>


(***************************************************************************)
(* C27: the two address-register numbers and the two data-register numbers *)
(* of read_mem32 and write_mem32 are four different MDIO registers: an     *)
(* access that made its four transfers touched four registers, and no data *)
(* transfer went to a register that an address transfer of the same access *)
(* had written.                                                            *)
(***************************************************************************)
RegsTouched(r) == {r.log[k].reg : k \in 1 .. Len(r.log)}

C27_FourRegisters ==
    \A c \in Ctx :
        LET r == clast[c]
        IN  (r.kind \in Access32Kinds /\ Len(r.log) = 4) =>
               /\ Cardinality(RegsTouched(r)) = 4
               /\ \A j \in 1 .. 2, k \in 3 .. 4 : r.log[j].reg # r.log[k].reg


(***************************************************************************)
(* C28: in every sequence of the callbacks the delayed work is initialized *)
(* before a schedule (resume) or a cancel (suspend, remove) acts on it, it *)
(* is not initialized again while a tick is scheduled or running, and at   *)
(* most one tick is on a timer or on a worklist at any time.               *)
(***************************************************************************)
\* the step runs INIT_DELAYED_WORK: a call of config_init that reached its
\* last statements
InitializesWork == InitCall /\ init_ret' = 0

CancelStarts == mxl371x_suspend_enter \/ mxl371x_remove_enter

TickPendingOrRunning ==
    stats_poll.pending \/ stats_poll.armed \/ stats_poll.queued
    \/ tick_pc # "idle"

C28_PollerSetUpOnce ==
    [][ /\ mxl371x_resume => stats_poll.init
        /\ CancelStarts => stats_poll.init
        /\ InitializesWork => ~TickPendingOrRunning
        /\ TicksScheduled' <= 1
      ]_vars

=============================================================================
